---- MODULE Spec2Model ----
(***************************************************************************)
(* DailySelfie: the capture indexing and consistency layer.                *)
(*                                                                         *)
(*   core/storage.py    image files and the append-only audit log          *)
(*   core/indexer.py    the SQLite index (table captures)                  *)
(*   core/metadata.py   the per-id sidecar files                           *)
(*   core/locks.py      the file lock                                      *)
(*   core/index_api.py  IndexAPI, the orchestrator                         *)
(*   core/capture.py    capture_once, the capture pipeline                 *)
(*                                                                         *)
(* Values.  A Python value that may be None is a tuple: <<>> is None and   *)
(* <<v>> is the value v.  A dict is a record whose DOMAIN is its key set,  *)
(* so a missing key and a key bound to None are different things, as they  *)
(* are in the code.  A timestamp is a second of the clock, 1..MaxNow; an   *)
(* id is the stem of the file name made from a timestamp and is identified *)
(* with that second; the empty string id is EmptyId.  A path is the tuple  *)
(* <<"photos", day, stem>>; the empty path is <<>>.                        *)
(***************************************************************************)
EXTENDS Integers, Sequences, FiniteSets, TLC

VARIABLES
    now,        \* the wall clock (datetime.now / time.time), in seconds
    files,      \* image files at their final path, by stem
    audit,      \* captures.jsonl: the sequence of its lines
    index,      \* table captures: id -> row
    sidecar,    \* metadata/<id>.json: id -> content
    lock,       \* holder of index.db.lock, or NoProc
    pc,         \* per process: position in the running operation
    arg,        \* per process: arguments and locals of the running operation
    ret,        \* per process: outcome of the last finished operation
    calls,      \* number of operations called so far
    lastOp,     \* history: the last operation made on the Indexer
    before      \* history: the table before that operation

vars == <<now, files, audit, index, sidecar, lock, pc, arg, ret, calls, lastOp, before>>

-----------------------------------------------------------------------------
(* Bounds *)

\* seconds of the clock; ids are made from them
MaxNow == 2
\* seconds per calendar date
SecsPerDay == 2
\* lines the audit log has room for
MaxAudit == 3
\* lines of an audit log found at start
MaxFound == 2
\* operations called in one behaviour of concurrent processes
MaxCalls == 2
\* operations called in one behaviour of a single process
MaxSeqCalls == 3
\* days per calendar month
DaysPerMonth == 2
\* the longest timeout passed to file_lock, in poll intervals
MaxTimeout == 2
\* the last month of the year, "if month == 12"
December == 12

-----------------------------------------------------------------------------
(* Values *)

None == <<>>
Some(v) == <<v>>
IsNone(o) == o = None
Val(o) == o[1]

\* dict.get(k): None when the key is missing
Get(d, k) == IF k \in DOMAIN d THEN d[k] ELSE None
\* dict.get(k, default)
GetD(d, k, dflt) == IF k \in DOMAIN d THEN d[k] ELSE dflt

\* d | {k: v}
Put(d, k, v) == [x \in DOMAIN d \cup {k} |-> IF x = k THEN v ELSE d[x]]
\* mapping without key k
Drop(d, k) == [x \in DOMAIN d \ {k} |-> d[x]]

EmptyDict == [x \in {} |-> None]

Times == 1..MaxNow
EmptyId == 0
Ids == Times
EmptyPath == <<>>

\* ts.date()
DateOf(t) == (t - 1) \div SecsPerDay + 1

\* storage.make_date_time_filename: YYYY-MM-DD_HHMMSS.jpg
make_date_time_filename(t) == <<t, "jpg">>
\* storage.year_month_folder / atomic_write: root/YYYY/MM/<filename>
FinalPath(t) == <<"photos", DateOf(t), make_date_time_filename(t)[1]>>
\* Path(p).stem; the stem of the empty path is the empty string
Stem(p) == IF p = EmptyPath THEN EmptyId ELSE p[3]

\* Python truthiness of an optional id (None and "" are falsy)
TruthyId(o) == o # None /\ Val(o) # EmptyId
\* Python truthiness of an optional path (None and "" are falsy)
TruthyPath(o) == o # None /\ Val(o) # EmptyPath

-----------------------------------------------------------------------------
(* core/indexer.py *)

NoProc == 0
\* the table captures is a set of rows; PRIMARY KEY(id) is kept by add_capture
EmptyIndex == {}

\* the row add_capture stores for an entry at wall-clock time t
RowOf(entry, t) ==
    [id         |-> Val(Get(entry, "id")),
     ts         |-> Get(entry, "ts"),
     path       |-> Get(entry, "path"),
     width      |-> Get(entry, "width"),
     height     |-> Get(entry, "height"),
     resolution |-> Get(entry, "resolution"),
     mood       |-> Get(entry, "mood"),
     notes      |-> Get(entry, "notes"),
     action     |-> GetD(entry, "action", Some("capture")),
     created_at |-> Some(t)]

\* add_capture returns normally: the id is truthy and no NOT NULL column
\* (ts, path, action) is bound to NULL
AddCaptureOk(entry) ==
    /\ TruthyId(Get(entry, "id"))
    /\ Get(entry, "ts") # None
    /\ Get(entry, "path") # None
    /\ GetD(entry, "action", Some("capture")) # None

\* rows of the table with the given id
RowsOf(idx, i) == {r \in idx : r.id = i}

\* a plausible slip: INSERT OR IGNORE keeps the row already stored for the id
add_capture_ignore(idx, entry, t) ==
    IF ~AddCaptureOk(entry) THEN idx
    ELSE IF RowsOf(idx, Val(Get(entry, "id"))) # {} THEN idx
    ELSE idx \cup {RowOf(entry, t)}

\* a plausible slip: a plain INSERT into a table that has lost its key
add_capture_no_replace(idx, entry, t) ==
    IF ~AddCaptureOk(entry) THEN idx ELSE idx \cup {RowOf(entry, t)}

\* Indexer.add_capture: INSERT OR REPLACE keyed by id (the row in conflict is
\* deleted, the new row inserted); the table is left as it was when the call
\* raises
add_capture(idx, entry, t) ==
    IF AddCaptureOk(entry)
    THEN (idx \ RowsOf(idx, Val(Get(entry, "id")))) \cup {RowOf(entry, t)}
    ELSE idx

\* Indexer.get_capture_by_id: SELECT ... WHERE id = ? LIMIT 1; the row, or None
get_capture_by_id(idx, i) ==
    IF RowsOf(idx, i) = {} THEN None ELSE Some(CHOOSE r \in RowsOf(idx, i) : TRUE)

\* Indexer.count_rows
count_rows(idx) == Cardinality(idx)

\* a line of captures.jsonl: one JSON object, or text json.loads rejects
JsonLine(obj) == [kind |-> "json", obj |-> obj]
GarbageLine == [kind |-> "garbage"]
\* a line json.loads accepts and that is no object (null, a number, an array)
ScalarLine == [kind |-> "scalar"]

\* migrate_from_jsonl, "Determine id": the id of the record, else the stem of
\* its path, else nothing
MigrateId(obj) ==
    IF TruthyId(Get(obj, "id")) THEN Get(obj, "id")
    ELSE IF TruthyPath(Get(obj, "path")) THEN Some(Stem(Val(Get(obj, "path"))))
    ELSE None

\* migrate_from_jsonl: the entry built from a record
MigrateEntry(obj) ==
    [id         |-> MigrateId(obj),
     ts         |-> Get(obj, "ts"),
     path       |-> Get(obj, "path"),
     width      |-> Get(obj, "width"),
     height     |-> Get(obj, "height"),
     resolution |-> Get(obj, "resolution"),
     mood       |-> Get(obj, "mood"),
     notes      |-> Get(obj, "notes"),
     action     |-> GetD(obj, "action", GetD(obj, "type", Some("capture")))]

\* one line is replayed: it is parsed, has an id and add_capture accepts it
MigrateImports(line) ==
    /\ line.kind = "json"
    /\ TruthyId(MigrateId(line.obj))
    /\ AddCaptureOk(MigrateEntry(line.obj))

\* one iteration of the loop of migrate_from_jsonl over a line
MigrateLine(st, line, t) ==
    IF MigrateImports(line)
    THEN [st EXCEPT !.idx = add_capture(st.idx, MigrateEntry(line.obj), t),
                    !.count = st.count + 1]
    ELSE st

\* the loop over the lines; obj.get raises on a line that is no object, outside
\* the try, and the loop ends there with the rows upserted so far
RECURSIVE MigrateLines(_, _, _, _)
MigrateLines(st, lines, k, t) ==
    IF k > Len(lines) THEN st
    ELSE IF lines[k] = ScalarLine THEN [st EXCEPT !.raised = TRUE]
    ELSE MigrateLines(MigrateLine(st, lines[k], t), lines, k + 1, t)

\* Indexer.migrate_from_jsonl: the table, the count it returns, and whether it
\* raised instead of returning
migrate_from_jsonl(idx, lines, t) ==
    MigrateLines([idx |-> idx, count |-> 0, raised |-> FALSE], lines, 1, t)

\* a plausible slip: the row keeps the mood and notes it had
update_meta_skipped(idx, eid, meta) == idx

\* Indexer.update_meta: UPDATE captures SET mood / notes WHERE id = ?
update_meta(idx, eid, meta) ==
    {IF r.id = eid
     THEN [r EXCEPT !.mood  = IF "mood" \in DOMAIN meta THEN meta.mood ELSE @,
                    !.notes = IF "notes" \in DOMAIN meta THEN meta.notes ELSE @]
     ELSE r : r \in idx}

-----------------------------------------------------------------------------
(* core/metadata.py *)

\* contents of a sidecar file that write_meta did not produce: text json.load
\* rejects, and JSON that is no object (a non-empty array)
GarbageMeta == [garbage |-> TRUE]
ArrayMeta == [array |-> TRUE]

\* read_meta: what json.load returns for the sidecar; {} when there is no
\* file or json.load raises
read_meta(sc, eid) ==
    IF eid \notin DOMAIN sc \/ sc[eid] = GarbageMeta THEN EmptyDict ELSE sc[eid]

\* write_meta: the whole content is replaced; edited_at is filled in when the
\* caller gave none
write_meta(sc, eid, meta, t) ==
    Put(sc, eid, IF "edited_at" \in DOMAIN meta THEN meta ELSE Put(meta, "edited_at", Some(t)))

\* delete_meta: the file is removed if present
delete_meta(sc, eid) == Drop(sc, eid)

MetaKeys == {"mood", "notes", "edited_at"}

\* a plausible slip: a field the sidecar has with the value None replaces the
\* value of the row
merge_db_and_meta_null_wins(row, meta) ==
    LET db == IF row = None THEN EmptyDict ELSE Val(row)
    IN  [k \in DOMAIN db \cup MetaKeys |->
            IF k \in MetaKeys /\ k \in DOMAIN meta THEN meta[k]
            ELSE IF k \in DOMAIN db THEN db[k]
            ELSE None]

\* merge_db_and_meta: the row with mood, notes and edited_at taken from the
\* sidecar where it has a value that is not None
merge_db_and_meta(row, meta) ==
    LET db == IF row = None THEN EmptyDict ELSE Val(row)
    IN  [k \in DOMAIN db \cup MetaKeys |->
            IF k \in MetaKeys /\ k \in DOMAIN meta /\ meta[k] # None THEN meta[k]
            ELSE IF k \in DOMAIN db THEN db[k]
            ELSE None]

\* merge_db_and_meta raises: dict(meta) of a value that is truthy and no dict
MergeRaises(meta) == meta = ArrayMeta

\* IndexAPI.record_capture: the stub sidecar
StubMeta(eid, t) == [id |-> Some(eid), mood |-> None, notes |-> None, edited_at |-> Some(t)]

-----------------------------------------------------------------------------
(* The records found in an audit log *)

\* frame sizes the camera delivers
Dims == {<<640, 480>>}

\* f"{w}x{h}" if w and h else None
Resolution(w, h) == IF w # 0 /\ h # 0 THEN Some(<<w, "x", h>>) ELSE None

\* capture.capture_once, "Build index entry"
CaptureEntry(t, d) ==
    [ts         |-> Some(t),
     path       |-> Some(FinalPath(t)),
     id         |-> Some(Stem(FinalPath(t))),
     width      |-> Some(d[1]),
     height     |-> Some(d[2]),
     resolution |-> Resolution(d[1], d[2]),
     mood       |-> None,
     action     |-> Some("capture")]

\* capture.capture_once, deletion_entry of a retake
RetakeDeletionEntry(deleted, t) ==
    [ts     |-> Some(t),
     action |-> Some("delete"),
     path   |-> Some(FinalPath(deleted)),
     reason |-> Some("retake"),
     id     |-> Some(Stem(FinalPath(deleted)))]

\* IndexAPI.record_deletion, entry
DeletionEntry(eid, t, reason) ==
    [id     |-> Some(eid),
     ts     |-> Some(t),
     path   |-> Some(EmptyPath),
     action |-> Some("delete"),
     reason |-> Some(reason)]

\* records of other writers: one without id (its id is the stem of its path,
\* its action under the key type), one with neither id nor path, one the
\* table rejects (no ts)
LegacyEntry(t) == [ts |-> Some(t), path |-> Some(FinalPath(t)), type |-> Some("capture")]
AnonymousEntry == [ts |-> Some(1), action |-> Some("capture")]
NoTsEntry(i) == [id |-> Some(i), path |-> Some(FinalPath(i)), action |-> Some("delete")]

AuditObjs ==
    {CaptureEntry(t, d) : t \in Times, d \in Dims}
    \cup {DeletionEntry(i, i, "manual") : i \in Ids}
    \cup {LegacyEntry(1), NoTsEntry(1), AnonymousEntry}

AuditLines == {JsonLine(o) : o \in AuditObjs} \cup {GarbageLine}

RECURSIVE SeqsUpTo(_, _)
SeqsUpTo(S, n) ==
    IF n = 0 THEN {<<>>}
    ELSE LET shorter == SeqsUpTo(S, n - 1)
         IN  shorter \cup {Append(s, x) : s \in {q \in shorter : Len(q) = n - 1}, x \in S}

-----------------------------------------------------------------------------
(* Processes *)

Procs == {1, 2}

InitStores ==
    /\ now = 1
    /\ files = {}
    /\ index = EmptyIndex
    /\ sidecar = EmptyDict
    /\ lock = NoProc
    /\ pc = [p \in Procs |-> "idle"]
    /\ arg = [p \in Procs |-> EmptyDict]
    /\ ret = [p \in Procs |-> EmptyDict]
    /\ calls = 0
    /\ lastOp = [op |-> "none"]
    /\ before = EmptyIndex

\* time passes
Tick ==
    /\ now < MaxNow
    /\ now' = now + 1
    /\ UNCHANGED <<files, audit, index, sidecar, lock, pc, arg, ret, calls, lastOp, before>>

-----------------------------------------------------------------------------
(* SpecIdx: the Indexer called directly on the records of an audit log *)

InitIdx ==
    /\ InitStores
    /\ audit \in SeqsUpTo(AuditLines, MaxFound)

\* Indexer.add_capture on the record of line i, as IndexAPI.record_capture and
\* record_deletion call it after appending the record
IdxAddCapture(i) ==
    /\ audit[i].kind = "json"
    /\ index' = add_capture(index, audit[i].obj, now)
    /\ before' = index
    /\ lastOp' = [op     |-> "add",
                  entry  |-> audit[i].obj,
                  at     |-> now,
                  repeat |-> lastOp.op = "add" /\ lastOp.entry = audit[i].obj]
    /\ UNCHANGED <<now, files, audit, sidecar, lock, pc, arg, ret, calls>>

\* Indexer.migrate_from_jsonl over the whole log
IdxMigrate ==
    /\ index' = migrate_from_jsonl(index, audit, now).idx
    /\ before' = index
    /\ lastOp' = [op     |-> "migrate",
                  count  |-> migrate_from_jsonl(index, audit, now).count,
                  raised |-> migrate_from_jsonl(index, audit, now).raised,
                  repeat |-> lastOp.op = "migrate"]
    /\ UNCHANGED <<now, files, audit, sidecar, lock, pc, arg, ret, calls>>

NextIdx ==
    \/ Tick
    \/ \E i \in 1..Len(audit) : IdxAddCapture(i)
    \/ IdxMigrate

SpecIdx == InitIdx /\ [][NextIdx]_vars

\* a row without the column created_at
SansCreated(o) == IF o = None THEN None ELSE Some([k \in DOMAIN Val(o) \ {"created_at"} |-> Val(o)[k]])

\* the add_capture call just made was a second call with the entry of the call
\* before it
SecondAdd == lastOp.op = "add" /\ lastOp.repeat

\* C5 as stated: a second add_capture with an identical entry leaves
\* count_rows() and the row of the id unchanged in every column
C5_EveryColumn ==
    SecondAdd =>
        /\ count_rows(index) = count_rows(before)
        /\ Get(lastOp.entry, "id") # None =>
                get_capture_by_id(index, Val(Get(lastOp.entry, "id")))
                    = get_capture_by_id(before, Val(Get(lastOp.entry, "id")))

\* C5 amended: a second add_capture with an identical entry leaves
\* count_rows() unchanged and the row of the id unchanged in every column
\* other than created_at, which is the time of the second call
C5_UpsertIdempotent ==
    SecondAdd /\ AddCaptureOk(lastOp.entry) =>
        /\ count_rows(index) = count_rows(before)
        /\ SansCreated(get_capture_by_id(index, Val(Get(lastOp.entry, "id"))))
             = SansCreated(get_capture_by_id(before, Val(Get(lastOp.entry, "id"))))
        /\ Val(get_capture_by_id(index, Val(Get(lastOp.entry, "id")))).created_at = Some(lastOp.at)

C5_Witness ==
    /\ SecondAdd
    /\ AddCaptureOk(lastOp.entry)
    /\ get_capture_by_id(before, Val(Get(lastOp.entry, "id"))) # None

\* ids of the table with the action of each
IdActions(idx) == {<<r.id, r.action>> : r \in idx}

\* C6: migrate_from_jsonl run over a log, twice or with some of its records
\* already in the table, leaves count_rows() and the set of ids with the action
\* of each as one run into an empty table does
C6_MigrationIdempotent ==
    lastOp.op = "migrate" =>
        /\ count_rows(index) = count_rows(migrate_from_jsonl(EmptyIndex, audit, now).idx)
        /\ IdActions(index) = IdActions(migrate_from_jsonl(EmptyIndex, audit, now).idx)

\* a migration over a table that held some of the records and differed from
\* the result
C6_Witness ==
    /\ lastOp.op = "migrate"
    /\ before # EmptyIndex
    /\ IdActions(before) # IdActions(index)

-----------------------------------------------------------------------------
(* Operations of a process: call, steps, return *)

stores == <<files, audit, index, sidecar>>

Raised(op, exc) == [op |-> op, raised |-> exc]
Returned(op, v) == [op |-> op, value |-> v]

\* the operation of p ends with outcome r
Finish(p, r) ==
    /\ pc' = [pc EXCEPT ![p] = "idle"]
    /\ arg' = [arg EXCEPT ![p] = EmptyDict]
    /\ ret' = [ret EXCEPT ![p] = r]

\* the outcome of the operation p finished last: the operation, its entry or
\* metadata, and whether it returned or raised
\* (of an update_meta that returned, also its id)
Last(p) ==
    LET r    == ret[p]
        base == [k \in DOMAIN r \cap {"op", "entry", "meta", "raised", "crashed", "at"} |-> r[k]]
    IN  IF r # EmptyDict /\ r.op = "update_meta" /\ "value" \in DOMAIN r
        THEN Put(Put(base, "id", r.id), "meta", r.prev.meta)
        ELSE base

\* p goes on to label l with locals a
Goto(p, l, a) ==
    /\ pc' = [pc EXCEPT ![p] = l]
    /\ arg' = [arg EXCEPT ![p] = a]
    /\ ret' = [ret EXCEPT ![p] = EmptyDict]

-----------------------------------------------------------------------------
(* core/locks.py: file_lock, the fcntl.flock branch *)

LockPcs == {"rc_lock", "rd_lock", "um_lock", "mg_lock"}

AfterLock(l) ==
    CASE l = "rc_lock" -> "rc_audit"
      [] l = "rd_lock" -> "rd_audit"
      [] l = "um_lock" -> "um_write"
      [] l = "mg_lock" -> "mg_run"

\* labels between "yield" and the release in "finally"
CriticalPcs == {"rc_audit", "rc_audit2", "rc_index", "rc_sidecar", "rd_audit", "rd_index", "rd_sidecar",
                "um_write", "um_index", "mg_run", "mg_unlock"}

\* a plausible slip: the lock is taken without LOCK_NB failing on a held lock
Acquire_unguarded(p) ==
    /\ pc[p] \in LockPcs
    /\ lock' = p
    /\ pc' = [pc EXCEPT ![p] = AfterLock(pc[p])]
    /\ UNCHANGED <<now, stores, arg, ret, calls, lastOp, before>>

\* flock(LOCK_EX | LOCK_NB) succeeds: the lock is free
Acquire(p) ==
    /\ pc[p] \in LockPcs
    /\ lock = NoProc
    /\ lock' = p
    /\ pc' = [pc EXCEPT ![p] = AfterLock(pc[p])]
    /\ UNCHANGED <<now, stores, arg, ret, calls, lastOp, before>>

\* flock fails with EAGAIN and the deadline has passed: TimeoutError
LockTimeout(p) ==
    /\ pc[p] \in LockPcs
    /\ lock # NoProc
    /\ Finish(p, Raised(arg[p].op, "TimeoutError"))
    /\ UNCHANGED <<now, stores, lock, calls, lastOp, before>>

\* the "finally" of file_lock: flock(LOCK_UN)
Release(p) == lock' = IF lock = p THEN NoProc ELSE lock

\* the process dies; the kernel drops its flock
Crash(p) ==
    /\ pc[p] # "idle"
    /\ Release(p)
    /\ Finish(p, [op |-> arg[p].op, crashed |-> TRUE, at |-> pc[p]])
    /\ UNCHANGED <<now, stores, calls, lastOp, before>>

-----------------------------------------------------------------------------
(* core/storage.py: the audit log *)

\* a plausible slip: the file is opened with "w", and the line written is all
\* the file holds
append_capture_index_truncating(log, entry) == <<JsonLine(entry)>>

\* append_capture_index / append_deletion_index: the text of the entry and a
\* newline are written at the end of the file; after an unfinished line they
\* continue that line, which then is no JSON
append_capture_index(log, entry) ==
    IF Len(log) > 0 /\ log[Len(log)].kind = "part"
    THEN [log EXCEPT ![Len(log)] = GarbageLine]
    ELSE Append(log, JsonLine(entry))

\* the log has room for one more line (beyond it the disk is full)
CanAppend == Len(audit) < MaxAudit

-----------------------------------------------------------------------------
(* IndexAPI.record_capture *)

\* a plausible slip: the audit line is appended before the lock is taken
RcCall_writes_early(p, e) ==
    /\ pc[p] = "idle"
    /\ calls' = calls + 1
    /\ "id" \in DOMAIN e
    /\ audit' = append_capture_index(audit, e)
    /\ Goto(p, "rc_lock", [op |-> "record_capture", entry |-> e])
    /\ UNCHANGED <<now, files, index, sidecar, lock, lastOp, before>>

RcCall(p, e) ==
    /\ pc[p] = "idle"
    /\ calls' = calls + 1
    /\ IF "id" \notin DOMAIN e
       THEN Finish(p, Raised("record_capture", "ValueError"))
       ELSE Goto(p, "rc_lock", [op |-> "record_capture", entry |-> e])
    /\ UNCHANGED <<now, stores, lock, lastOp, before>>

\* step 1: the audit line is appended
RcAuditOk(p) ==
    /\ pc[p] = "rc_audit"
    /\ CanAppend
    /\ audit' = append_capture_index(audit, arg[p].entry)
    /\ pc' = [pc EXCEPT ![p] = "rc_index"]
    /\ UNCHANGED <<now, files, index, sidecar, lock, arg, ret, calls, lastOp, before>>

\* a plausible slip, the one the comment at the raise describes: "still attempt
\* DB write, but surface the audit failure"
RcAuditFail_still_writes(p) ==
    /\ pc[p] = "rc_audit"
    /\ index' = add_capture(index, arg[p].entry, now)
    /\ Release(p)
    /\ Finish(p, Raised("record_capture", "audit"))
    /\ UNCHANGED <<now, files, audit, sidecar, calls, lastOp, before>>

\* step 1 fails: RuntimeError, raised through the "with"
RcAuditFail(p) ==
    /\ pc[p] = "rc_audit"
    /\ Release(p)
    /\ Finish(p, Raised("record_capture", "audit"))
    /\ UNCHANGED <<now, stores, calls, lastOp, before>>

\* step 2: the row is upserted
RcIndexOk(p) ==
    /\ pc[p] = "rc_index"
    /\ AddCaptureOk(arg[p].entry)
    /\ index' = add_capture(index, arg[p].entry, now)
    /\ pc' = [pc EXCEPT ![p] = "rc_sidecar"]
    /\ UNCHANGED <<now, files, audit, sidecar, lock, arg, ret, calls, lastOp, before>>

\* a plausible slip: the exception leaves the "with" and the lock stays held
RcIndexFail_keeps_lock(p) ==
    /\ pc[p] = "rc_index"
    /\ Finish(p, Raised("record_capture", "index"))
    /\ UNCHANGED <<now, stores, lock, calls, lastOp, before>>

\* step 2 fails (add_capture rejects the entry, or SQLite fails): RuntimeError
RcIndexFail(p) ==
    /\ pc[p] = "rc_index"
    /\ Release(p)
    /\ Finish(p, Raised("record_capture", "index"))
    /\ UNCHANGED <<now, stores, calls, lastOp, before>>

\* step 3 as it would be if a failure of write_meta were raised to the caller
RcSidecar_stub_fatal(p) ==
    /\ pc[p] = "rc_sidecar"
    /\ LET eid == Val(arg[p].entry.id)
       IN  \/ /\ sidecar' = IF read_meta(sidecar, eid) = EmptyDict
                             THEN write_meta(sidecar, eid, StubMeta(eid, now), now)
                             ELSE sidecar
              /\ pc' = [pc EXCEPT ![p] = "rc_read"]
              /\ UNCHANGED <<arg, ret>>
           \/ /\ read_meta(sidecar, eid) = EmptyDict
              /\ sidecar' = sidecar
              /\ Finish(p, Raised("record_capture", "sidecar"))
    /\ Release(p)
    /\ UNCHANGED <<now, files, audit, index, calls, lastOp, before>>

\* step 3: a stub sidecar is written when read_meta finds none; a failure of
\* write_meta is swallowed; the "with" ends
RcSidecar(p) ==
    /\ pc[p] = "rc_sidecar"
    /\ LET eid == Val(arg[p].entry.id)
       IN  IF read_meta(sidecar, eid) = EmptyDict
           THEN sidecar' \in {write_meta(sidecar, eid, StubMeta(eid, now), now), sidecar}
           ELSE sidecar' = sidecar
    /\ Release(p)
    /\ pc' = [pc EXCEPT ![p] = "rc_read"]
    /\ UNCHANGED <<now, files, audit, index, arg, ret, calls, lastOp, before>>

\* "Return final merged record"; the merge raises for a sidecar that is no
\* object
RcReturn(p) ==
    /\ pc[p] = "rc_read"
    /\ LET eid == Val(arg[p].entry.id)
       IN  IF MergeRaises(read_meta(sidecar, eid))
           THEN Finish(p, Raised("record_capture", "TypeError"))
           ELSE Finish(p, [op    |-> "record_capture",
                           entry |-> arg[p].entry,
                           value |-> merge_db_and_meta(get_capture_by_id(index, eid),
                                                       read_meta(sidecar, eid))])
    /\ UNCHANGED <<now, stores, lock, calls, lastOp, before>>

-----------------------------------------------------------------------------
(* IndexAPI.record_deletion *)

RdCall(p, eid, reason) ==
    /\ pc[p] = "idle"
    /\ calls' = calls + 1
    /\ IF eid = EmptyId
       THEN Finish(p, Raised("record_deletion", "ValueError"))
       ELSE Goto(p, "rd_lock", [op     |-> "record_deletion",
                                entry  |-> DeletionEntry(eid, now, reason)])
    /\ UNCHANGED <<now, stores, lock, lastOp, before>>

RdAuditOk(p) ==
    /\ pc[p] = "rd_audit"
    /\ CanAppend
    /\ audit' = append_capture_index(audit, arg[p].entry)
    /\ pc' = [pc EXCEPT ![p] = "rd_index"]
    /\ UNCHANGED <<now, files, index, sidecar, lock, arg, ret, calls, lastOp, before>>

RdAuditFail(p) ==
    /\ pc[p] = "rd_audit"
    /\ Release(p)
    /\ Finish(p, Raised("record_deletion", "audit"))
    /\ UNCHANGED <<now, stores, calls, lastOp, before>>

RdIndexOk(p) ==
    /\ pc[p] = "rd_index"
    /\ AddCaptureOk(arg[p].entry)
    /\ index' = add_capture(index, arg[p].entry, now)
    /\ pc' = [pc EXCEPT ![p] = "rd_sidecar"]
    /\ UNCHANGED <<now, files, audit, sidecar, lock, arg, ret, calls, lastOp, before>>

RdIndexFail(p) ==
    /\ pc[p] = "rd_index"
    /\ Release(p)
    /\ Finish(p, Raised("record_deletion", "index"))
    /\ UNCHANGED <<now, stores, calls, lastOp, before>>

\* the sidecar is removed (a failure of delete_meta is swallowed); the "with"
\* ends and the deletion summary is returned
RdSidecar(p) ==
    /\ pc[p] = "rd_sidecar"
    /\ sidecar' \in {delete_meta(sidecar, Val(arg[p].entry.id)), sidecar}
    /\ Release(p)
    /\ Finish(p, [op    |-> "record_deletion",
                  entry |-> arg[p].entry,
                  value |-> [id     |-> arg[p].entry.id,
                             ts     |-> arg[p].entry.ts,
                             action |-> Some("delete"),
                             reason |-> arg[p].entry.reason]])
    /\ UNCHANGED <<now, files, audit, index, calls, lastOp, before>>

-----------------------------------------------------------------------------
(* IndexAPI.get_item *)

\* idx.get_capture_by_id(eid)
GiCall(p, eid) ==
    /\ pc[p] = "idle"
    /\ calls' = calls + 1
    /\ Goto(p, "gi_meta", [op   |-> "get_item",
                           id   |-> eid,
                           row  |-> get_capture_by_id(index, eid),
                           prev |-> Last(p)])
    /\ UNCHANGED <<now, stores, lock, lastOp, before>>

\* the value get_item returns for a row and a sidecar content
get_item(row, meta) ==
    IF row = None
    THEN IF meta # EmptyDict THEN Some(meta) ELSE None
    ELSE Some(merge_db_and_meta(row, meta))

\* a plausible slip: the read waits until no process holds the lock
GiReturn_waits(p) ==
    /\ pc[p] = "gi_meta"
    /\ lock = NoProc
    /\ Finish(p, [op    |-> arg[p].op,
                  id    |-> arg[p].id,
                  prev  |-> arg[p].prev,
                  value |-> get_item(arg[p].row, read_meta(sidecar, arg[p].id))])
    /\ UNCHANGED <<now, stores, lock, calls, lastOp, before>>

\* read_meta(eid), the merge and the return; with a row, the merge raises for
\* a sidecar that is no object
GiReturn(p) ==
    /\ pc[p] = "gi_meta"
    /\ IF arg[p].row # None /\ MergeRaises(read_meta(sidecar, arg[p].id))
       THEN Finish(p, Raised(arg[p].op, "TypeError"))
       ELSE Finish(p, [op    |-> arg[p].op,
                       id    |-> arg[p].id,
                       prev  |-> arg[p].prev,
                       value |-> get_item(arg[p].row, read_meta(sidecar, arg[p].id))])
    /\ UNCHANGED <<now, stores, lock, calls, lastOp, before>>

-----------------------------------------------------------------------------
(* IndexAPI.update_meta *)

UmCall(p, eid, meta) ==
    /\ pc[p] = "idle"
    /\ calls' = calls + 1
    /\ IF eid = EmptyId \/ meta = EmptyDict
       THEN Finish(p, Raised("update_meta", "ValueError"))
       ELSE Goto(p, "um_lock", [op |-> "update_meta", id |-> eid, meta |-> meta])
    /\ UNCHANGED <<now, stores, lock, lastOp, before>>

\* "write sidecar first (atomic)"
UmWriteOk(p) ==
    /\ pc[p] = "um_write"
    /\ sidecar' = write_meta(sidecar, arg[p].id, arg[p].meta, now)
    /\ pc' = [pc EXCEPT ![p] = "um_index"]
    /\ UNCHANGED <<now, files, audit, index, lock, arg, ret, calls, lastOp, before>>

\* write_meta raises; the exception leaves the "with"
UmWriteFail(p) ==
    /\ pc[p] = "um_write"
    /\ Release(p)
    /\ Finish(p, Raised("update_meta", "sidecar"))
    /\ UNCHANGED <<now, stores, calls, lastOp, before>>

\* the mood / notes given are put into the row; the "with" ends
UmIndex(p) ==
    /\ pc[p] = "um_index"
    /\ index' = update_meta(index, arg[p].id,
                            [k \in DOMAIN arg[p].meta \cap {"mood", "notes"} |-> arg[p].meta[k]])
    /\ Release(p)
    /\ pc' = [pc EXCEPT ![p] = "um_read"]
    /\ UNCHANGED <<now, files, audit, sidecar, arg, ret, calls, lastOp, before>>

\* "return self.get_item(eid)": the row is read
UmRead(p) ==
    /\ pc[p] = "um_read"
    /\ pc' = [pc EXCEPT ![p] = "gi_meta"]
    /\ arg' = [arg EXCEPT ![p] = [op   |-> "update_meta",
                                  id   |-> arg[p].id,
                                  row  |-> get_capture_by_id(index, arg[p].id),
                                  prev |-> [op |-> "update_meta", meta |-> arg[p].meta]]]
    /\ UNCHANGED <<now, stores, lock, ret, calls, lastOp, before>>

-----------------------------------------------------------------------------
(* IndexAPI.migrate_if_needed *)

\* "if not jsonl.exists(): return 0": the file exists once a line was appended
MgCall(p) ==
    /\ pc[p] = "idle"
    /\ calls' = calls + 1
    /\ IF Len(audit) = 0
       THEN Finish(p, [op |-> "migrate_if_needed", value |-> 0, prev |-> Last(p)])
       ELSE Goto(p, "mg_lock", [op |-> "migrate_if_needed", prev |-> Last(p)])
    /\ UNCHANGED <<now, stores, lock, lastOp, before>>

\* idx.migrate_from_jsonl(jsonl), under the lock
MgRun(p) ==
    /\ pc[p] = "mg_run"
    /\ ~migrate_from_jsonl(index, audit, now).raised
    /\ index' = migrate_from_jsonl(index, audit, now).idx
    /\ pc' = [pc EXCEPT ![p] = "mg_unlock"]
    /\ arg' = [arg EXCEPT ![p] = Put(arg[p], "imported", migrate_from_jsonl(index, audit, now).count)]
    /\ UNCHANGED <<now, files, audit, sidecar, lock, ret, calls, lastOp, before>>

\* the "with" ends; "return imported"
MgReturn(p) ==
    /\ pc[p] = "mg_unlock"
    /\ Release(p)
    /\ Finish(p, [op |-> "migrate_if_needed", value |-> arg[p].imported, prev |-> arg[p].prev])
    /\ UNCHANGED <<now, stores, calls, lastOp, before>>

-----------------------------------------------------------------------------
(* Spec: processes calling IndexAPI on one data directory *)

\* ids that exist at time t: the stems of the timestamps up to t
IdsAt(t) == {i \in Ids : i <= t}

\* entries callers pass to record_capture at time t: the entry of a capture
\* taken by then, and one without the key id
ApiEntries(t) ==
    {CaptureEntry(i, d) : i \in IdsAt(t), d \in Dims}
    \cup {[ts |-> Some(1), path |-> Some(FinalPath(1))]}

\* metadata callers pass to update_meta
ApiMetas == {[mood |-> Some("Good")]}

Init ==
    /\ InitStores
    /\ audit = <<>>

Next ==
    \/ Tick
    \/ \E p \in Procs, e \in ApiEntries(now) : calls < MaxCalls /\ RcCall(p, e)
    \/ \E p \in Procs, i \in IdsAt(now) : calls < MaxCalls /\ RdCall(p, i, "manual")
    \/ \E p \in Procs, i \in IdsAt(now), m \in ApiMetas : calls < MaxCalls /\ UmCall(p, i, m)
    \/ \E p \in Procs : calls < MaxCalls /\ MgCall(p)
    \/ \E p \in Procs : Acquire(p)
    \/ \E p \in Procs : LockTimeout(p)
    \/ \E p \in Procs : RcAuditOk(p)
    \/ \E p \in Procs : RcAuditFail(p)
    \/ \E p \in Procs : RcIndexOk(p)
    \/ \E p \in Procs : RcIndexFail(p)
    \/ \E p \in Procs : RcSidecar(p)
    \/ \E p \in Procs : RcReturn(p)
    \/ \E p \in Procs : RdAuditOk(p)
    \/ \E p \in Procs : RdAuditFail(p)
    \/ \E p \in Procs : RdIndexOk(p)
    \/ \E p \in Procs : RdIndexFail(p)
    \/ \E p \in Procs : RdSidecar(p)
    \/ \E p \in Procs : UmWriteOk(p)
    \/ \E p \in Procs : UmWriteFail(p)
    \/ \E p \in Procs : UmIndex(p)
    \/ \E p \in Procs : UmRead(p)
    \/ \E p \in Procs : GiReturn(p)
    \/ \E p \in Procs : MgRun(p)
    \/ \E p \in Procs : MgReturn(p)

Spec == Init /\ [][Next]_vars

\* the lines of a log, as a set
Lines(log) == {log[k] : k \in 1..Len(log)}

InCS(p) == pc[p] \in CriticalPcs

-----------------------------------------------------------------------------
(* SpecSeq: one process calling IndexAPI, one operation after the other *)

\* entries a caller passes to record_capture at time t: the entry of a capture,
\* and for the first id one with id, ts and path only, one that records a
\* deletion and carries mood and notes, and one whose id is the empty string
SeqEntries(t) ==
    {CaptureEntry(i, d) : i \in IdsAt(t), d \in Dims}
    \cup {[id |-> Some(1), ts |-> Some(1), path |-> Some(FinalPath(1))],
          [id |-> Some(1), ts |-> Some(1), path |-> Some(EmptyPath), action |-> Some("delete"),
           mood |-> Some("Sad"), notes |-> Some("old")],
          [id |-> Some(EmptyId), ts |-> Some(1), path |-> Some(FinalPath(1))]}

\* metadata a caller passes to update_meta
SeqMetas == {[mood |-> Some("Good"), notes |-> None]}

TheProc == CHOOSE p \in Procs : TRUE

NextSeq ==
    \/ Tick
    \/ \E e \in SeqEntries(now) : calls < MaxSeqCalls /\ RcCall(TheProc, e)
    \/ \E i \in IdsAt(now), m \in SeqMetas : calls < MaxSeqCalls /\ UmCall(TheProc, i, m)
    \/ \E i \in IdsAt(now) : calls < MaxSeqCalls /\ GiCall(TheProc, i)
    \/ Acquire(TheProc)
    \/ RcAuditOk(TheProc)
    \/ RcAuditFail(TheProc)
    \/ RcIndexOk(TheProc)
    \/ RcIndexFail(TheProc)
    \/ RcSidecar(TheProc)
    \/ RcReturn(TheProc)
    \/ UmWriteOk(TheProc)
    \/ UmWriteFail(TheProc)
    \/ UmIndex(TheProc)
    \/ UmRead(TheProc)
    \/ GiReturn(TheProc)

SpecSeq == Init /\ [][NextSeq]_vars

\* columns of the row that come from the entry
EntryColumns == {"ts", "path", "width", "height", "resolution"}

\* p has finished get_item(id) called right after its record_capture(entry)
\* returned, for an entry with that id
GotAfterCapture(p) ==
    /\ ret[p] # EmptyDict
    /\ ret[p].op = "get_item"
    /\ ret[p].prev # EmptyDict
    /\ ret[p].prev.op = "record_capture"
    /\ "raised" \notin DOMAIN ret[p].prev
    /\ ret[p].prev.entry.id = Some(ret[p].id)

\* C4: record_capture(entry) followed by get_item(id) returns a merged record
\* whose id, ts, path, width, height, resolution and action are those of the
\* entry (a column the entry does not give is None, the action capture)
C4_CaptureThenGet ==
    \A p \in Procs :
        GotAfterCapture(p) =>
            /\ ret[p].value # None
            /\ Val(ret[p].value).id = ret[p].id
            /\ \A k \in EntryColumns : Val(ret[p].value)[k] = Get(ret[p].prev.entry, k)
            /\ Val(ret[p].value).action = GetD(ret[p].prev.entry, "action", Some("capture"))

\* get_item after a record_capture that replaced the row of an id recorded before
C4_Witness ==
    \E p \in Procs :
        /\ GotAfterCapture(p)
        /\ Cardinality({k \in 1..Len(audit) : Get(audit[k].obj, "id") = Some(ret[p].id)}) > 1

-----------------------------------------------------------------------------
(* core/storage.py: image files *)

Max(S) == CHOOSE x \in S : \A y \in S : y <= x

\* list_images_for_date: the files whose name starts with the date
list_images_for_date(fs, date) == {f \in fs : DateOf(f) = date}

\* last_image_for_date: the last of them in sorted order, or None
last_image_for_date(fs, date) ==
    IF list_images_for_date(fs, date) = {} THEN None
    ELSE Some(Max(list_images_for_date(fs, date)))

-----------------------------------------------------------------------------
(* core/capture.py: capture_once *)

CoPcs == {"co_delete", "co_del_audit", "co_camera", "co_save", "co_audit"}

\* the dict capture_once returns
CoResult(success, path, timestamp, error, id) ==
    [op |-> "capture_once", success |-> success, path |-> path,
     timestamp |-> timestamp, error |-> error, id |-> id]

\* a plausible slip: the one-per-day check is skipped
CoCall_unchecked(p, allow) ==
    /\ pc[p] = "idle"
    /\ calls' = calls + 1
    /\ Goto(p, "co_camera", [op |-> "capture_once", ts |-> now, allow |-> allow, existing |-> None])
    /\ UNCHANGED <<now, stores, lock, lastOp, before>>

\* a plausible slip: the attempt takes the data-directory lock for its duration
CoCall_locked(p, allow) ==
    /\ pc[p] = "idle"
    /\ lock = NoProc
    /\ lock' = p
    /\ calls' = calls + 1
    /\ Goto(p, "co_camera", [op |-> "capture_once", ts |-> now, allow |-> allow,
                             existing |-> last_image_for_date(files, DateOf(now))])
    /\ UNCHANGED <<now, stores, lastOp, before>>

\* ts = now; "Check existing image for the day": with an image and no retake
\* allowed the attempt ends here
CoCall(p, allow) ==
    /\ pc[p] = "idle"
    /\ calls' = calls + 1
    /\ LET existing == last_image_for_date(files, DateOf(now))
       IN  IF existing # None /\ ~allow
           THEN Finish(p, CoResult(FALSE, Some(FinalPath(Val(existing))), Some(now),
                                   Some("photo already exists"), None))
           ELSE Goto(p, IF existing # None THEN "co_delete" ELSE "co_camera",
                     [op |-> "capture_once", ts |-> now, allow |-> allow, existing |-> existing])
    /\ UNCHANGED <<now, stores, lock, lastOp, before>>

\* delete_last_image_for_date finds the last image of the date and unlinks it
CoDeleteOk(p) ==
    /\ pc[p] = "co_delete"
    /\ last_image_for_date(files, DateOf(arg[p].ts)) # None
    /\ LET last == Val(last_image_for_date(files, DateOf(arg[p].ts)))
       IN  /\ files' = files \ {last}
           /\ arg' = [arg EXCEPT ![p] = Put(arg[p], "deleted", last)]
    /\ pc' = [pc EXCEPT ![p] = "co_del_audit"]
    /\ UNCHANGED <<now, audit, index, sidecar, lock, ret, calls, lastOp, before>>

\* delete_last_image_for_date fails (no image, or unlink raises): a warning is
\* logged and the capture goes on
CoDeleteFail(p) ==
    /\ pc[p] = "co_delete"
    /\ pc' = [pc EXCEPT ![p] = "co_camera"]
    /\ UNCHANGED <<now, stores, lock, arg, ret, calls, lastOp, before>>

\* the deletion entry is appended
CoDelAuditOk(p) ==
    /\ pc[p] = "co_del_audit"
    /\ CanAppend
    /\ audit' = append_capture_index(audit, RetakeDeletionEntry(arg[p].deleted, now))
    /\ pc' = [pc EXCEPT ![p] = "co_camera"]
    /\ UNCHANGED <<now, files, index, sidecar, lock, arg, ret, calls, lastOp, before>>

\* append_deletion_index raises: "ensure deletion doesn't block capture"
CoDelAuditFail(p) ==
    /\ pc[p] = "co_del_audit"
    /\ pc' = [pc EXCEPT ![p] = "co_camera"]
    /\ UNCHANGED <<now, stores, lock, arg, ret, calls, lastOp, before>>

\* the frame is read and encoded
CoCameraOk(p, d) ==
    /\ pc[p] = "co_camera"
    /\ arg' = [arg EXCEPT ![p] = Put(arg[p], "dims", d)]
    /\ pc' = [pc EXCEPT ![p] = "co_save"]
    /\ UNCHANGED <<now, stores, lock, ret, calls, lastOp, before>>

\* the camera or the encoder fails: "capture failed"
CoCameraFail(p) ==
    /\ pc[p] = "co_camera"
    /\ Finish(p, Put(Put(CoResult(FALSE, None, None, Some("capture failed"), None),
                         "allow", arg[p].allow), "existing", arg[p].existing))
    /\ UNCHANGED <<now, stores, lock, calls, lastOp, before>>

\* save_image_bytes: the file is written at the path made from ts
CoSaveOk(p) ==
    /\ pc[p] = "co_save"
    /\ files' = files \cup {Stem(FinalPath(arg[p].ts))}
    /\ pc' = [pc EXCEPT ![p] = "co_audit"]
    /\ UNCHANGED <<now, audit, index, sidecar, lock, arg, ret, calls, lastOp, before>>

\* save_image_bytes fails: "save failed"
CoSaveFail(p) ==
    /\ pc[p] = "co_save"
    /\ Finish(p, Put(Put(CoResult(FALSE, None, Some(arg[p].ts), Some("save failed"), None),
                         "allow", arg[p].allow), "existing", arg[p].existing))
    /\ UNCHANGED <<now, stores, lock, calls, lastOp, before>>

\* what a capture that saved its image returns
CoSaved(p) ==
    Put(Put(CoResult(TRUE, Some(FinalPath(arg[p].ts)), Some(arg[p].ts), None,
                     Some(Stem(FinalPath(arg[p].ts)))),
            "allow", arg[p].allow), "existing", arg[p].existing)

\* the capture entry is appended; success is returned
CoAuditOk(p) ==
    /\ pc[p] = "co_audit"
    /\ CanAppend
    /\ audit' = append_capture_index(audit, CaptureEntry(arg[p].ts, arg[p].dims))
    /\ Finish(p, CoSaved(p))
    /\ UNCHANGED <<now, files, index, sidecar, lock, calls, lastOp, before>>

\* append_capture_index raises: the exception is logged; success is returned
CoAuditFail(p) ==
    /\ pc[p] = "co_audit"
    /\ Finish(p, CoSaved(p))
    /\ UNCHANGED <<now, stores, lock, calls, lastOp, before>>

-----------------------------------------------------------------------------
(* Live captures *)

Dates == {DateOf(t) : t \in Times}

IsCaptureOf(line, i) ==
    /\ line.kind = "json"
    /\ Get(line.obj, "id") = Some(i)
    /\ GetD(line.obj, "action", Some("capture")) = Some("capture")

IsDeleteOf(line, i) ==
    /\ line.kind = "json"
    /\ Get(line.obj, "id") = Some(i)
    /\ Get(line.obj, "action") = Some("delete")

\* positions of the capture entries of id i
CaptureLines(log, i) == {k \in 1..Len(log) : IsCaptureOf(log[k], i)}

\* positions of the capture entries of the date that no later delete entry of
\* their id follows
LiveLines(log, date) ==
    {k \in 1..Len(log) :
        \E i \in Ids :
            /\ DateOf(i) = date
            /\ IsCaptureOf(log[k], i)
            /\ ~\E l \in (k + 1)..Len(log) : IsDeleteOf(log[l], i)}

\* p's capture_once has returned r.success = TRUE
Captured(p) ==
    /\ ret[p] # EmptyDict
    /\ ret[p].op = "capture_once"
    /\ ret[p].success

\* p's capture_once has returned the already-exists failure
Blocked(p) ==
    /\ ret[p] # EmptyDict
    /\ ret[p].op = "capture_once"
    /\ ~ret[p].success
    /\ ret[p].error = Some("photo already exists")

-----------------------------------------------------------------------------
(* SpecCap: one process calling capture_once, one attempt after the other *)

NextCap ==
    \/ Tick
    \/ \E allow \in BOOLEAN : calls < MaxSeqCalls /\ CoCall(TheProc, allow)
    \/ CoDeleteOk(TheProc)
    \/ CoDeleteFail(TheProc)
    \/ CoDelAuditOk(TheProc)
    \/ CoDelAuditFail(TheProc)
    \/ \E d \in Dims : CoCameraOk(TheProc, d)
    \/ CoCameraFail(TheProc)
    \/ CoSaveOk(TheProc)
    \/ CoSaveFail(TheProc)
    \/ CoAuditOk(TheProc)
    \/ CoAuditFail(TheProc)

SpecCap == Init /\ [][NextCap]_vars

Retaken(p) ==
    /\ Captured(p)
    /\ ret[p].allow
    /\ ret[p].existing # None

\* C8 as stated: when a capture with allow_retake on a date that had an image
\* has ended, the prior file is gone, a delete entry of the prior id stands in
\* the audit log before the new capture entry, and the new capture is the only
\* live entry and the only image file of the date
C8_RetakeReplaces ==
    \A p \in Procs :
        Retaken(p) =>
            LET prior == Val(ret[p].existing)
                new   == Val(ret[p].id)
            IN  /\ prior # new => prior \notin files
                /\ \E k, l \in 1..Len(audit) :
                        k < l /\ IsDeleteOf(audit[k], prior) /\ IsCaptureOf(audit[l], new)
                /\ list_images_for_date(files, DateOf(new)) = {new}
                /\ \A k \in LiveLines(audit, DateOf(new)) : IsCaptureOf(audit[k], new)
                /\ Cardinality(LiveLines(audit, DateOf(new))) = 1

\* C9 as stated: after any sequence of attempts made one after the other a date
\* has at most one image file and at most one live capture entry
C9_OneLivePerDate ==
    \A date \in Dates :
        /\ Cardinality(list_images_for_date(files, date)) <= 1
        /\ Cardinality(LiveLines(audit, date)) <= 1

-----------------------------------------------------------------------------
(* SpecCrash: capture_once, the death of the process, and migrate_if_needed at
   the restart *)

NextCrash ==
    \/ Tick
    \/ \E allow \in BOOLEAN : calls < MaxSeqCalls /\ CoCall(TheProc, allow)
    \/ CoDeleteOk(TheProc)
    \/ CoDeleteFail(TheProc)
    \/ CoDelAuditOk(TheProc)
    \/ CoDelAuditFail(TheProc)
    \/ \E d \in Dims : CoCameraOk(TheProc, d)
    \/ CoCameraFail(TheProc)
    \/ CoSaveOk(TheProc)
    \/ CoSaveFail(TheProc)
    \/ CoAuditOk(TheProc)
    \/ CoAuditFail(TheProc)
    \/ Crash(TheProc)
    \/ calls < MaxSeqCalls /\ MgCall(TheProc)
    \/ Acquire(TheProc)
    \/ MgRun(TheProc)
    \/ MgReturn(TheProc)

SpecCrash == Init /\ [][NextCrash]_vars

\* p's migrate_if_needed has returned, and the operation before it was a
\* capture_once that the death of the process cut short
RestartedAfterCrash(p) ==
    /\ ret[p] # EmptyDict
    /\ ret[p].op = "migrate_if_needed"
    /\ "value" \in DOMAIN ret[p]
    /\ ret[p].prev # EmptyDict
    /\ ret[p].prev.op = "capture_once"
    /\ "crashed" \in DOMAIN ret[p].prev

\* C3 as stated: after a crash in a capture, a restart and migrate_if_needed,
\* every image file has a capture entry in the audit log and a capture row in
\* the Index, and no capture is recorded twice
C3_NoOrphanAfterRestart ==
    \A p \in Procs :
        RestartedAfterCrash(p) =>
            \A f \in files :
                /\ Cardinality(CaptureLines(audit, f)) = 1
                /\ \E row \in RowsOf(index, f) : row.action = Some("capture")
                /\ Cardinality(RowsOf(index, f)) = 1

-----------------------------------------------------------------------------
(* SpecRace: two processes calling capture_once with allow_retake false *)

NextRace ==
    \/ Tick
    \/ \E p \in Procs : calls < MaxCalls /\ CoCall(p, FALSE)
    \/ \E p \in Procs, d \in Dims : CoCameraOk(p, d)
    \/ \E p \in Procs : CoCameraFail(p)
    \/ \E p \in Procs : CoSaveOk(p)
    \/ \E p \in Procs : CoSaveFail(p)
    \/ \E p \in Procs : CoAuditOk(p)
    \/ \E p \in Procs : CoAuditFail(p)

SpecRace == Init /\ [][NextRace]_vars

\* C10: an attempt past the same-day check holds no lock while it goes on to
\* write (the check it passed saw no image of the date and is not made again),
\* so that a second attempt can pass the check in between
C10_CheckOutsideLock ==
    \A p \in Procs :
        pc[p] \in CoPcs =>
            /\ lock = NoProc
            /\ arg[p].existing = None
            /\ \A q \in Procs \ {p} :
                    (pc[q] = "idle" /\ list_images_for_date(files, DateOf(now)) = {}) =>
                        ENABLED CoCall(q, FALSE)

\* two attempts with allow_retake false have both returned success, and their
\* date has two image files and two live capture entries
C10_Witness ==
    \E p, q \in Procs :
        /\ p # q
        /\ Captured(p) /\ ~ret[p].allow /\ ret[p].existing = None
        /\ Captured(q) /\ ~ret[q].allow /\ ret[q].existing = None
        /\ DateOf(Val(ret[p].id)) = DateOf(Val(ret[q].id))
        /\ Cardinality(list_images_for_date(files, DateOf(Val(ret[p].id)))) = 2
        /\ Cardinality(LiveLines(audit, DateOf(Val(ret[p].id)))) = 2

-----------------------------------------------------------------------------
(* SpecMeta: one process recording captures, editing their metadata and reading
   them back *)

\* moods a caller gives: a word, the empty string, and None
Moods == {Some("Good"), Some(""), None}

\* metadata a caller passes to update_meta: a mood alone, or with notes
MoodMetas == {[mood |-> x] : x \in Moods} \cup {[mood |-> None, notes |-> Some("n")]}

\* entries recorded before: the entry of a capture, and an entry that carries
\* a mood and notes of its own
MetaEntries(t) ==
    {CaptureEntry(i, d) : i \in IdsAt(t), d \in Dims}
    \cup {[id |-> Some(1), ts |-> Some(1), path |-> Some(FinalPath(1)),
           mood |-> Some("Sad"), notes |-> Some("old")]}

NextMeta ==
    \/ Tick
    \/ \E e \in MetaEntries(now) : calls < MaxSeqCalls /\ RcCall(TheProc, e)
    \/ \E i \in IdsAt(now), m \in MoodMetas : calls < MaxSeqCalls /\ UmCall(TheProc, i, m)
    \/ \E i \in IdsAt(now) : calls < MaxSeqCalls /\ GiCall(TheProc, i)
    \/ Acquire(TheProc)
    \/ RcAuditOk(TheProc)
    \/ RcAuditFail(TheProc)
    \/ RcIndexOk(TheProc)
    \/ RcIndexFail(TheProc)
    \/ RcSidecar(TheProc)
    \/ RcReturn(TheProc)
    \/ UmWriteOk(TheProc)
    \/ UmWriteFail(TheProc)
    \/ UmIndex(TheProc)
    \/ UmRead(TheProc)
    \/ GiReturn(TheProc)

SpecMeta == Init /\ [][NextMeta]_vars

\* p has finished get_item(id) called right after its update_meta(id, meta)
\* returned
GotAfterUpdate(p) ==
    /\ ret[p] # EmptyDict
    /\ ret[p].op = "get_item"
    /\ ret[p].prev # EmptyDict
    /\ ret[p].prev.op = "update_meta"
    /\ "raised" \notin DOMAIN ret[p].prev
    /\ ret[p].prev.id = ret[p].id

\* C11: update_meta(id, {mood: x}) followed by get_item(id) returns a record
\* whose mood is x, whether or not the Index has a row of the id
C11_MoodReadBack ==
    \A p \in Procs :
        GotAfterUpdate(p) =>
            /\ ret[p].value # None
            /\ Val(ret[p].value).mood = ret[p].prev.meta.mood

\* the mood None was read back for an id whose row had been recorded with a
\* mood
C11_Witness ==
    \E p \in Procs :
        /\ GotAfterUpdate(p)
        /\ ret[p].prev.meta.mood = None
        /\ \E k \in 1..Len(audit) :
              /\ Get(audit[k].obj, "id") = Some(ret[p].id)
              /\ Get(audit[k].obj, "mood") = Some("Sad")
        /\ get_capture_by_id(index, ret[p].id) # None

-----------------------------------------------------------------------------
(* Indexer.get_captures_by_month and IndexAPI.list_month *)

\* ts.isoformat(): year, month, day of the month and time of day, as the
\* fixed-width fields of YYYY-MM-DDTHH:MM:SS
MonthIndex(t) == (DateOf(t) - 1) \div DaysPerMonth
YearOf(t)     == MonthIndex(t) \div December + 1
MonthOf(t)    == (MonthIndex(t) % December) + 1
DayOf(t)      == ((DateOf(t) - 1) % DaysPerMonth) + 1
SecOf(t)      == (t - 1) % SecsPerDay
isoformat(t)  == <<YearOf(t), MonthOf(t), DayOf(t), SecOf(t)>>

\* comparison of two such strings, character by character
StrLess(a, b) == \E i \in 1..4 : a[i] < b[i] /\ \A j \in 1..(i - 1) : a[j] = b[j]
StrLeq(a, b)  == a = b \/ StrLess(a, b)

\* start = f"{year:04d}-{month:02d}-01T00:00:00"
MonthStart(year, month) == <<year, month, 1, 0>>
\* end as it would be if the month after December were taken in the same year
MonthEnd_same_year(year, month) == <<year, (month % December) + 1, 1, 0>>

\* end: the first of the next month, of January of the next year for December
MonthEnd(year, month) ==
    IF month = December THEN <<year + 1, 1, 1, 0>> ELSE <<year, month + 1, 1, 0>>

\* WHERE ts >= ? AND ts < ? AND action = 'capture'
MonthRows(idx, year, month) ==
    {r \in idx :
        /\ r.ts # None
        /\ StrLeq(MonthStart(year, month), isoformat(Val(r.ts)))
        /\ StrLess(isoformat(Val(r.ts)), MonthEnd(year, month))
        /\ r.action = Some("capture")}

\* ORDER BY ts ASC
RECURSIVE OrderByTs(_)
OrderByTs(S) ==
    IF S = {} THEN <<>>
    ELSE LET r == CHOOSE x \in S :
                    \A y \in S : ~StrLess(isoformat(Val(y.ts)), isoformat(Val(x.ts)))
         IN  <<r>> \o OrderByTs(S \ {r})

get_captures_by_month(idx, year, month) == OrderByTs(MonthRows(idx, year, month))

\* IndexAPI.list_month: each row merged with its sidecar
list_month(idx, sc, year, month) ==
    LET rows == get_captures_by_month(idx, year, month)
    IN  [k \in 1..Len(rows) |-> merge_db_and_meta(Some(rows[k]), read_meta(sc, rows[k].id))]

\* the ids of a list of records
IdsOf(recs) == {recs[k].id : k \in 1..Len(recs)}

-----------------------------------------------------------------------------
(* SpecPair: two threads calling record_capture for different ids; the bytes of
   an audit line reach the file in two writes *)

\* the first bytes of a line, not yet ended by its newline
PartLine(entry) == [kind |-> "part", obj |-> entry]

NotPart(line) == line.kind # "part"

\* f.write: the first bytes of the line are appended
RcAuditBegin(p) ==
    /\ pc[p] = "rc_audit"
    /\ CanAppend
    /\ audit' = Append(audit, PartLine(arg[p].entry))
    /\ pc' = [pc EXCEPT ![p] = "rc_audit2"]
    /\ UNCHANGED <<now, files, index, sidecar, lock, arg, ret, calls, lastOp, before>>

\* f.flush: the rest of the line and its newline are appended; they end a whole
\* line when the file ends with the first bytes of this line and holds no other
\* unfinished line, and otherwise they end a line that is no JSON
RcAuditEnd(p) ==
    /\ pc[p] = "rc_audit2"
    /\ audit' = IF /\ Len(audit) > 0
                   /\ audit[Len(audit)] = PartLine(arg[p].entry)
                   /\ \A k \in 1..(Len(audit) - 1) : NotPart(audit[k])
                THEN [audit EXCEPT ![Len(audit)] = JsonLine(arg[p].entry)]
                ELSE Append(SelectSeq(audit, NotPart), GarbageLine)
    /\ pc' = [pc EXCEPT ![p] = "rc_index"]
    /\ UNCHANGED <<now, files, index, sidecar, lock, arg, ret, calls, lastOp, before>>

\* ids of the entries p is recording or has recorded last
UsedIds(p) ==
    {Val(r.entry.id) : r \in {x \in {arg[p], ret[p]} : "entry" \in DOMAIN x}}

NextPair ==
    \/ Tick
    \/ \E p \in Procs, i \in IdsAt(now), d \in Dims :
            /\ calls < MaxCalls
            /\ \A q \in Procs \ {p} : i \notin UsedIds(q)
            /\ RcCall(p, CaptureEntry(i, d))
    \/ \E p \in Procs : Acquire(p)
    \/ \E p \in Procs : RcAuditBegin(p)
    \/ \E p \in Procs : RcAuditEnd(p)
    \/ \E p \in Procs : RcIndexOk(p)
    \/ \E p \in Procs : RcSidecar(p)
    \/ \E p \in Procs : RcReturn(p)

SpecPair == Init /\ [][NextPair]_vars

\* p's record_capture has returned
Recorded(p) ==
    /\ ret[p] # EmptyDict
    /\ ret[p].op = "record_capture"
    /\ "raised" \notin DOMAIN ret[p]

\* C12: of two threads recording different ids neither is made to fail by the
\* other (a waiting one waits for a running one, a call that ends has returned);
\* the row of each is in the list of its month; the audit log holds the line of
\* each whole, and at no time a line that is no JSON or an unfinished line that
\* is not the last one
C12_BothRecorded ==
    /\ \A k \in 1..Len(audit) :
            /\ audit[k].kind # "garbage"
            /\ audit[k].kind = "part" =>
                    k = Len(audit) /\ \E p \in Procs : pc[p] = "rc_audit2" /\ lock = p
    /\ \A p \in Procs :
            /\ pc[p] \in LockPcs => (lock = NoProc \/ (lock # p /\ InCS(lock)))
            /\ (ret[p] # EmptyDict /\ ret[p].op = "record_capture") =>
                    /\ Recorded(p)
                    /\ LET e == ret[p].entry
                       IN  /\ Val(e.id) \in IdsOf(get_captures_by_month(index,
                                            YearOf(Val(e.ts)), MonthOf(Val(e.ts))))
                           /\ \E k \in 1..Len(audit) : audit[k] = JsonLine(e)

\* the rows of both threads are listed and their lines are whole, after calls
\* that overlapped: p wrote first and has not yet returned, q wrote second and
\* has returned
C12_Witness ==
    \E p, q \in Procs :
        /\ p # q
        /\ pc[p] = "rc_read"
        /\ Recorded(q)
        /\ arg[p].entry.id # ret[q].entry.id
        /\ audit = <<JsonLine(arg[p].entry), JsonLine(ret[q].entry)>>
        /\ IdsOf(get_captures_by_month(index, 1, 1))
             = {Val(arg[p].entry.id), Val(ret[q].entry.id)}

-----------------------------------------------------------------------------
(* record_deletion, as seen at its return *)

\* the step in which p's record_deletion returns
RdReturns(p) == pc[p] = "rd_sidecar" /\ pc'[p] = "idle"

\* months in which the timestamps of the model lie
Months == {<<YearOf(t), MonthOf(t)>> : t \in Times}

\* what holds at the return of record_deletion whatever delete_meta did
DeletionRecorded(p) ==
    LET e   == ret'[p].entry
        eid == Val(e.id)
    IN  /\ "raised" \notin DOMAIN ret'[p]
        /\ Len(audit') > 0
        /\ audit'[Len(audit')] = JsonLine(e)
        /\ e.action = Some("delete")
        /\ e.reason = arg[p].entry.reason
        /\ get_capture_by_id(index', eid) # None
        /\ Val(get_capture_by_id(index', eid)).action = Some("delete")
        /\ \A ym \in Months : eid \notin IdsOf(list_month(index', sidecar', ym[1], ym[2]))

\* C13 as stated: when record_deletion(id, reason) returns, the audit log ends
\* with the delete entry of id with that reason, the row of id has the action
\* delete, list_month does not return id, and the sidecar of id does not exist
C13_DeletionComplete ==
    [][\A p \in Procs :
        RdReturns(p) =>
            /\ DeletionRecorded(p)
            /\ Val(ret'[p].entry.id) \notin DOMAIN sidecar'
    ]_vars

\* C13, amended: the same, but the sidecar of id is gone only if delete_meta
\* succeeded; when it failed the sidecar is left as it was
C13_DeletionBestEffort ==
    [][\A p \in Procs :
        RdReturns(p) =>
            /\ DeletionRecorded(p)
            /\ \/ sidecar' = delete_meta(sidecar, Val(ret'[p].entry.id))
               \/ sidecar' = sidecar
    ]_vars

\* record_deletion has returned for an id that had been recorded as a capture,
\* and the sidecar of the id is gone
C13_Witness ==
    \E p \in Procs :
        /\ ret[p] # EmptyDict
        /\ ret[p].op = "record_deletion"
        /\ "raised" \notin DOMAIN ret[p]
        /\ CaptureLines(audit, Val(ret[p].entry.id)) # {}
        /\ Val(ret[p].entry.id) \notin DOMAIN sidecar
        /\ Val(get_capture_by_id(index, Val(ret[p].entry.id))).action = Some("delete")

-----------------------------------------------------------------------------
(* SpecExit: Spec, and a migration whose replay raises *)

\* migrate_from_jsonl raises (the log cannot be read, a line is JSON but no
\* object); the exception leaves the "with"
MgRunFail(p) ==
    /\ pc[p] = "mg_run"
    /\ Release(p)
    /\ Finish(p, [op |-> "migrate_if_needed", raised |-> "migrate", prev |-> arg[p].prev])
    /\ UNCHANGED <<now, stores, calls, lastOp, before>>

NextExit ==
    \/ Next
    \/ \E p \in Procs : MgRunFail(p)

SpecExit == Init /\ [][NextExit]_vars

\* C14: the lock is held only by an operation inside its critical section;
\* every step that takes an operation out of its critical section, by
\* completing or by raising, leaves the lock free; and on a free lock the
\* acquire of any waiting process succeeds
C14_ReleasedOnEveryExit ==
    /\ [](\A p \in Procs : lock = p => InCS(p))
    /\ [](\A q \in Procs : (lock = NoProc /\ pc[q] \in LockPcs) => ENABLED Acquire(q))
    /\ [][\A p \in Procs : (InCS(p) /\ ~InCS(p)') => (lock = p /\ lock' = NoProc)]_vars

\* an operation has raised out of its critical section and another process
\* holds the lock after it
C14_Witness ==
    \E p, q \in Procs :
        /\ p # q
        /\ ret[p] # EmptyDict
        /\ "raised" \in DOMAIN ret[p]
        /\ ret[p].raised \in {"audit", "index", "sidecar", "migrate"}
        /\ lock = q
        /\ InCS(q)

-----------------------------------------------------------------------------
(* SpecLock: file_lock alone, with its timeout, its deadline and its polling
   loop; time is counted in poll intervals from the start of an attempt *)

\* timeout values a caller passes: None, 0, and positive ones
Timeouts == {None} \cup {Some(n) : n \in 0..MaxTimeout}

Min(a, b) == IF a <= b THEN a ELSE b

\* deadline = time.time() + float(timeout) if timeout is not None and
\* timeout > 0 else None (kept relative to the start of the attempt)
Deadline(timeout) == IF timeout # None /\ Val(timeout) > 0 THEN timeout ELSE None

FlCall(p, timeout) ==
    /\ pc[p] = "idle"
    /\ calls' = calls + 1
    /\ Goto(p, "fl_try", [op       |-> "file_lock",
                          timeout  |-> timeout,
                          deadline |-> Deadline(timeout),
                          waited   |-> 0])
    /\ UNCHANGED <<now, stores, lock, lastOp, before>>

\* flock(LOCK_EX | LOCK_NB) succeeds: "Got the lock"
FlTryOk(p) ==
    /\ pc[p] = "fl_try"
    /\ lock = NoProc
    /\ lock' = p
    /\ pc' = [pc EXCEPT ![p] = "fl_held"]
    /\ UNCHANGED <<now, stores, arg, ret, calls, lastOp, before>>

\* flock fails with EAGAIN: TimeoutError "if deadline and time.time() >
\* deadline", else the loop goes to sleep
FlTryBusy(p) ==
    /\ pc[p] = "fl_try"
    /\ lock # NoProc
    /\ IF arg[p].deadline # None /\ arg[p].waited > Val(arg[p].deadline)
       THEN Finish(p, Raised("file_lock", "TimeoutError"))
       ELSE /\ pc' = [pc EXCEPT ![p] = "fl_sleep"]
            /\ UNCHANGED <<arg, ret>>
    /\ UNCHANGED <<now, stores, lock, calls, lastOp, before>>

FlTry(p) == FlTryOk(p) \/ FlTryBusy(p)

\* time.sleep(poll_interval): at least one poll interval passes (the time
\* waited is of no use, and not kept, beyond the deadline or without one)
FlSleep(p) ==
    /\ pc[p] = "fl_sleep"
    /\ \E w \in 1..(MaxTimeout + 1) :
          arg' = [arg EXCEPT ![p].waited =
                    IF arg[p].deadline = None THEN 0
                    ELSE Min(@ + w, Val(arg[p].deadline) + 1)]
    /\ pc' = [pc EXCEPT ![p] = "fl_try"]
    /\ UNCHANGED <<now, stores, lock, ret, calls, lastOp, before>>

\* the body of the "with" ends; the "finally" releases
FlExit(p) ==
    /\ pc[p] = "fl_held"
    /\ Release(p)
    /\ Finish(p, Returned("file_lock", arg[p].timeout))
    /\ UNCHANGED <<now, stores, calls, lastOp, before>>

NextLock ==
    \/ \E p \in Procs, t \in Timeouts : calls < MaxCalls /\ FlCall(p, t)
    \/ \E p \in Procs : FlTry(p)
    \/ \E p \in Procs : FlSleep(p)
    \/ \E p \in Procs : FlExit(p)

\* a thread that polls is scheduled again and again; a holder may stay in the
\* body for ever
SpecLock ==
    /\ Init
    /\ [][NextLock]_vars
    /\ \A p \in Procs : WF_vars(FlTry(p)) /\ WF_vars(FlSleep(p))

Waiting(p) == pc[p] \in {"fl_try", "fl_sleep"}

\* C15 as stated: whatever timeout was passed, an attempt to acquire ends, with
\* the lock held by the caller or with TimeoutError
C15_BoundedWait ==
    \A p \in Procs :
        Waiting(p) ~> (pc[p] = "fl_held"
                       \/ (pc[p] = "idle" /\ ret[p] = Raised("file_lock", "TimeoutError")))

-----------------------------------------------------------------------------
(* Lock timeouts of the four operations *)

\* p's operation has ended with the TimeoutError of file_lock
TimedOut(p) ==
    /\ ret[p] # EmptyDict
    /\ "raised" \in DOMAIN ret[p]
    /\ ret[p].raised = "TimeoutError"

\* C16: the steps of an operation up to the lock (the call, and the timeout
\* that ends it) write nothing to the audit log, the Index, the sidecars or the
\* image files; the timeout ends the operation with TimeoutError and leaves the
\* lock with its holder
C16_TimeoutWritesNothing ==
    [][\A p \in Procs :
        /\ (pc[p] = "idle" /\ pc'[p] \in LockPcs) => stores' = stores
        /\ (pc[p] \in LockPcs /\ pc'[p] = "idle") =>
                /\ stores' = stores
                /\ lock # NoProc /\ lock # p /\ lock' = lock
                /\ ret'[p] = Raised(arg[p].op, "TimeoutError")
    ]_vars

\* an operation has timed out on the lock while the holder had already written
C16_Witness ==
    \E p \in Procs :
        /\ TimedOut(p)
        /\ lock \notin {NoProc, p}
        /\ audit # <<>>

-----------------------------------------------------------------------------
(* Audit append failures *)

\* C17 as stated: no operation returns success with its audit line missing: a
\* capture_once that has returned success has its capture entry in the audit
\* log (record_capture and record_deletion raise when their append fails)
C17_AppendFailureFatal ==
    \A p \in Procs :
        Captured(p) => CaptureLines(audit, Val(ret[p].id)) # {}

-----------------------------------------------------------------------------
(* SpecRecover: one process recording captures and deletions, upserts that
   fail, the death of the process, and migrate_if_needed afterwards *)

\* entries a caller passes to record_capture: the entry of a capture, and one
\* that gives id and path but no ts
RecoverEntries(t) ==
    {CaptureEntry(i, d) : i \in IdsAt(t), d \in Dims}
    \cup {[id |-> Some(1), path |-> Some(FinalPath(1))]}

NextRecover ==
    \/ Tick
    \/ \E e \in RecoverEntries(now) : calls < MaxSeqCalls /\ RcCall(TheProc, e)
    \/ \E i \in IdsAt(now) : calls < MaxSeqCalls /\ RdCall(TheProc, i, "manual")
    \/ calls < MaxSeqCalls /\ MgCall(TheProc)
    \/ Acquire(TheProc)
    \/ RcAuditOk(TheProc)
    \/ RcAuditFail(TheProc)
    \/ RcIndexOk(TheProc)
    \/ RcIndexFail(TheProc)
    \/ RcSidecar(TheProc)
    \/ RcReturn(TheProc)
    \/ RdAuditOk(TheProc)
    \/ RdAuditFail(TheProc)
    \/ RdIndexOk(TheProc)
    \/ RdIndexFail(TheProc)
    \/ RdSidecar(TheProc)
    \/ MgRun(TheProc)
    \/ MgReturn(TheProc)
    \/ Crash(TheProc)

SpecRecover == Init /\ [][NextRecover]_vars

\* labels of record_capture and record_deletion after the audit append
AfterAppendPcs == {"rc_index", "rc_sidecar", "rc_read", "rd_index", "rd_sidecar"}

\* p's migrate_if_needed has returned, and the operation before it was a
\* record_capture or record_deletion that had appended its audit line and then
\* raised at the upsert or was cut short by the death of the process
MigratedAfterLostUpsert(p) ==
    /\ ret[p] # EmptyDict
    /\ ret[p].op = "migrate_if_needed"
    /\ "value" \in DOMAIN ret[p]
    /\ ret[p].prev # EmptyDict
    /\ ret[p].prev.op \in {"record_capture", "record_deletion"}
    /\ \/ "raised" \in DOMAIN ret[p].prev /\ ret[p].prev.raised = "index"
       \/ "crashed" \in DOMAIN ret[p].prev /\ ret[p].prev.at \in AfterAppendPcs

\* C18 as stated: the audit line of that operation is still the last of the
\* log, and migrate_if_needed has brought its entry into the Index
C18_AuditLineRecovers ==
    \A p \in Procs :
        MigratedAfterLostUpsert(p) =>
            /\ Len(audit) > 0
            /\ audit[Len(audit)].kind = "json"
            /\ LET o == audit[Len(audit)].obj
               IN  SansCreated(get_capture_by_id(index, Val(o.id)))
                     = SansCreated(Some(RowOf(o, now)))

-----------------------------------------------------------------------------
(* Sidecar failures inside record_capture and record_deletion *)

\* the audit log holds the line of entry e and the Index holds the row made
\* from e
LineAndRow(log, idx, e) ==
    /\ JsonLine(e) \in Lines(log)
    /\ SansCreated(get_capture_by_id(idx, Val(e.id))) = SansCreated(Some(RowOf(e, now)))

\* C19: whether or not write_meta wrote the stub, record_capture goes on from
\* its sidecar step to its return and returns a value; whether or not
\* delete_meta removed the sidecar, record_deletion returns its summary; at
\* each of these steps the audit line and the Index row of the operation are
\* present (a step in which the process dies is no step of the operation)
C19_SidecarFailureNotFatal ==
    [][\A p \in Procs :
        ~ (ret'[p] # EmptyDict /\ "crashed" \in DOMAIN ret'[p]) =>
            /\ (pc[p] = "rc_sidecar" /\ pc'[p] # pc[p]) =>
                    /\ pc'[p] = "rc_read"
                    /\ LineAndRow(audit', index', arg[p].entry)
            /\ (pc[p] = "rc_read" /\ pc'[p] # pc[p]) =>
                    /\ "value" \in DOMAIN ret'[p]
                    /\ LineAndRow(audit', index', ret'[p].entry)
            /\ RdReturns(p) =>
                    /\ "value" \in DOMAIN ret'[p]
                    /\ LineAndRow(audit', index', ret'[p].entry)
    ]_vars

\* record_capture has returned a value although the stub of its id was not
\* written, and the sidecar of an id recorded as deleted is still there; the
\* lines and rows of both are present
C19_Witness ==
    \E p \in Procs :
        /\ Recorded(p)
        /\ "value" \in DOMAIN ret[p]
        /\ Val(ret[p].entry.id) \notin DOMAIN sidecar
        /\ LineAndRow(audit, index, ret[p].entry)
        /\ \E j \in DOMAIN sidecar :
                /\ get_capture_by_id(index, j) # None
                /\ Val(get_capture_by_id(index, j)).action = Some("delete")
                /\ \E k \in 1..Len(audit) : IsDeleteOf(audit[k], j)

-----------------------------------------------------------------------------
(* SpecMonth: one process recording captures and deletions around the turn of
   a month and of a year, and listing months *)

\* seconds of a month of the clock
SecsPerMonth == DaysPerMonth * SecsPerDay

\* the first instant of a month, in seconds of the clock
FirstInstant(year, month) == ((year - 1) * December + (month - 1)) * SecsPerMonth + 1

\* instants at which the process acts: the last of November, the first and the
\* last of December, and the first of January of the next year
MonthTimes ==
    {FirstInstant(1, December) - 1, FirstInstant(1, December),
     FirstInstant(2, 1) - 1, FirstInstant(2, 1)}

\* months a caller lists
QueryMonths == {<<1, December - 1>>, <<1, December>>, <<2, 1>>}

\* time passes until a later one of these instants
MoPass(t) ==
    /\ t > now
    /\ now' = t
    /\ UNCHANGED <<files, audit, index, sidecar, lock, pc, arg, ret, calls, lastOp, before>>

\* IndexAPI.list_month(year, month)
LmCall(p, year, month) ==
    /\ pc[p] = "idle"
    /\ Finish(p, [op    |-> "list_month",
                  year  |-> year,
                  month |-> month,
                  value |-> list_month(index, sidecar, year, month)])
    /\ UNCHANGED <<now, stores, lock, calls, lastOp, before>>

\* entries a caller passes to record_capture at time t: the entries of captures
\* taken at these instants up to t
MonthEntries(t) == {CaptureEntry(i, d) : i \in {x \in MonthTimes : x <= t}, d \in Dims}

NextMonth ==
    \/ \E t \in MonthTimes : MoPass(t)
    \/ \E e \in MonthEntries(now) : calls < MaxSeqCalls /\ RcCall(TheProc, e)
    \/ \E r \in index : calls < MaxSeqCalls /\ RdCall(TheProc, r.id, "manual")
    \/ \E ym \in QueryMonths : LmCall(TheProc, ym[1], ym[2])
    \/ Acquire(TheProc)
    \/ RcAuditOk(TheProc)
    \/ RcIndexOk(TheProc)
    \/ RcSidecar(TheProc)
    \/ RcReturn(TheProc)
    \/ RdAuditOk(TheProc)
    \/ RdIndexOk(TheProc)
    \/ RdSidecar(TheProc)

SpecMonth == Init /\ [][NextMonth]_vars

\* the step in which p's list_month returns
LmReturns(p) ==
    /\ ret'[p] # ret[p]
    /\ ret'[p] # EmptyDict
    /\ ret'[p].op = "list_month"

\* rows of the table with the action capture whose timestamp is one of the
\* instants from lo up to hi, hi excluded
CapturesWithin(idx, lo, hi) ==
    {r \in idx : r.action = Some("capture") /\ r.ts # None
                    /\ lo <= Val(r.ts) /\ Val(r.ts) < hi}

\* C20: list_month(year, month) returns one record for each row with the
\* action capture whose timestamp is at or after the first instant of the month
\* and before the first instant of the next month (for December, of January of
\* the next year) and for no other row, each with the columns of its row, in
\* ascending order of timestamp
C20_MonthWindow ==
    [][\A p \in Procs :
        LmReturns(p) =>
            LET v    == ret'[p].value
                y    == ret'[p].year
                m    == ret'[p].month
                lo   == FirstInstant(y, m)
                hi   == IF m = December THEN FirstInstant(y + 1, 1) ELSE FirstInstant(y, m + 1)
                rows == CapturesWithin(index, lo, hi)
            IN  /\ hi = lo + SecsPerMonth
                /\ Len(v) = Cardinality(rows)
                /\ \A r \in rows : \E k \in 1..Len(v) :
                        \A c \in DOMAIN r \ MetaKeys : v[k][c] = r[c]
                /\ \A j, k \in 1..Len(v) : j < k => Val(v[j].ts) < Val(v[k].ts)
    ]_vars

\* list_month of December has returned two records, the one with the earlier
\* timestamp recorded after the other, while the table also holds a capture
\* taken at the first instant of January of the next year
C20_Witness ==
    \E p \in Procs :
        /\ ret[p] # EmptyDict
        /\ ret[p].op = "list_month"
        /\ ret[p].month = December
        /\ Len(ret[p].value) = 2
        /\ Val(ret[p].value[1].created_at) > Val(ret[p].value[2].created_at)
        /\ \E r \in index : r.action = Some("capture") /\ r.ts = Some(FirstInstant(2, 1))

-----------------------------------------------------------------------------
(* SpecMirror: one process recording captures, editing their metadata and
   running migrate_if_needed *)

NextMirror ==
    \/ Tick
    \/ \E e \in MetaEntries(now) : calls < MaxSeqCalls /\ RcCall(TheProc, e)
    \/ \E i \in IdsAt(now), m \in MoodMetas : calls < MaxSeqCalls /\ UmCall(TheProc, i, m)
    \/ calls < MaxSeqCalls /\ MgCall(TheProc)
    \/ Acquire(TheProc)
    \/ RcAuditOk(TheProc)
    \/ RcIndexOk(TheProc)
    \/ RcSidecar(TheProc)
    \/ RcReturn(TheProc)
    \/ UmWriteOk(TheProc)
    \/ UmWriteFail(TheProc)
    \/ UmIndex(TheProc)
    \/ UmRead(TheProc)
    \/ GiReturn(TheProc)
    \/ MgRun(TheProc)
    \/ MgReturn(TheProc)

SpecMirror == Init /\ [][NextMirror]_vars

\* labels of update_meta between the acquire and the release of the lock
UmCriticalPcs == {"um_write", "um_index"}

\* the id and the metadata of the update_meta of p that returned last, when no
\* operation of p other than migrate_if_needed came after it
LastUpdate(p) ==
    LET r == ret[p]
    IN  IF r = EmptyDict THEN None
        ELSE IF r.op = "update_meta" /\ "value" \in DOMAIN r
        THEN Some([id |-> r.id, meta |-> r.prev.meta])
        ELSE IF /\ r.op = "migrate_if_needed"
                /\ "value" \in DOMAIN r
                /\ r.prev # EmptyDict
                /\ r.prev.op = "update_meta"
                /\ "id" \in DOMAIN r.prev
        THEN Some([id |-> r.prev.id, meta |-> r.prev.meta])
        ELSE None

\* C21 as stated: while no process is inside the critical section of
\* update_meta, the mood and the notes that update_meta set last for an id with
\* a row are the same in the row and in the sidecar
C21_IndexMirrorsSidecar ==
    \A p \in Procs :
        (LastUpdate(p) # None /\ \A q \in Procs : pc[q] \notin UmCriticalPcs) =>
            LET u   == Val(LastUpdate(p))
                row == get_capture_by_id(index, u.id)
            IN  row # None =>
                    \A f \in DOMAIN u.meta \cap {"mood", "notes"} :
                        Val(row)[f] = Get(read_meta(sidecar, u.id), f)

-----------------------------------------------------------------------------
(* SpecLog: processes calling IndexAPI and capture_once on one data directory *)

NextLog ==
    \/ Next
    \/ \E p \in Procs, allow \in BOOLEAN : calls < MaxCalls /\ CoCall(p, allow)
    \/ \E p \in Procs : CoDeleteOk(p)
    \/ \E p \in Procs : CoDeleteFail(p)
    \/ \E p \in Procs : CoDelAuditOk(p)
    \/ \E p \in Procs : CoDelAuditFail(p)
    \/ \E p \in Procs, d \in Dims : CoCameraOk(p, d)
    \/ \E p \in Procs : CoCameraFail(p)
    \/ \E p \in Procs : CoSaveOk(p)
    \/ \E p \in Procs : CoSaveFail(p)
    \/ \E p \in Procs : CoAuditOk(p)
    \/ \E p \in Procs : CoAuditFail(p)

SpecLog == Init /\ [][NextLog]_vars

\* the lines of a are the first lines of b, in the same order
IsPrefix(a, b) == Len(a) <= Len(b) /\ SubSeq(b, 1, Len(a)) = a

\* C22: in every step of record_capture, record_deletion, update_meta,
\* migrate_if_needed and capture_once the audit log as it was is a prefix of
\* the audit log as it is afterwards, and a step that changes it adds one line
C22_AppendOnly ==
    [][/\ IsPrefix(audit, audit')
       /\ audit' # audit => Len(audit') = Len(audit) + 1]_vars

\* a capture_once has appended its line after the line of a record_capture of
\* another process, and both lines are in the log
C22_Witness ==
    \E p, q \in Procs :
        /\ p # q
        /\ Recorded(p)
        /\ Captured(q)
        /\ Len(audit) = 2
        /\ audit[1] = JsonLine(ret[p].entry)
        /\ IsCaptureOf(audit[2], Val(ret[q].id))

-----------------------------------------------------------------------------
(* SpecProj: one process calling record_capture and record_deletion *)

\* entries a caller passes to record_capture at time t: those of SeqEntries,
\* and one that names its action under the key type
ProjEntries(t) ==
    SeqEntries(t)
    \cup {[id |-> Some(1), ts |-> Some(1), path |-> Some(FinalPath(1)), type |-> Some("delete")]}

NextProj ==
    \/ Tick
    \/ \E e \in ProjEntries(now) : calls < MaxSeqCalls /\ RcCall(TheProc, e)
    \/ \E i \in IdsAt(now) : calls < MaxSeqCalls /\ RdCall(TheProc, i, "manual")
    \/ Acquire(TheProc)
    \/ RcAuditOk(TheProc)
    \/ RcAuditFail(TheProc)
    \/ RcIndexOk(TheProc)
    \/ RcIndexFail(TheProc)
    \/ RcSidecar(TheProc)
    \/ RcReturn(TheProc)
    \/ RdAuditOk(TheProc)
    \/ RdAuditFail(TheProc)
    \/ RdIndexOk(TheProc)
    \/ RdIndexFail(TheProc)
    \/ RdSidecar(TheProc)

SpecProj == Init /\ [][NextProj]_vars

\* the columns of a row that an audit record determines
ProjColumns == {"id", "ts", "path", "width", "height", "resolution", "action"}

\* the rows of a table, restricted to these columns
Projection(idx) == {[k \in ProjColumns |-> r[k]] : r \in idx}

\* C23 as stated: between calls of record_capture and record_deletion, the
\* migration of the audit log into an empty table gives the ids of the Index
\* and for each the ts, path, width, height, resolution and action of its row
C23_IndexIsProjection ==
    (\A p \in Procs : pc[p] = "idle") =>
        Projection(index) = Projection(migrate_from_jsonl(EmptyIndex, audit, now).idx)


\* C24 as stated: every step of record_capture, record_deletion, update_meta,
\* migrate_if_needed and capture_once that writes an image file, the audit
\* log, the Index or a sidecar is taken by the process that holds the lock
C24_WritesUnderLock ==
    [][\A p \in Procs :
        (pc'[p] # pc[p] /\ stores' # stores) => lock = p
    ]_vars

-----------------------------------------------------------------------------
(* SpecIds: one process calling record_capture, record_deletion and update_meta
   with ids that are usable and ids that are not *)

\* entries a caller passes to record_capture at time t: the entry of a capture,
\* and entries without the key id, with the id None and with the id ""
IdEntries(t) ==
    {CaptureEntry(i, d) : i \in IdsAt(t), d \in Dims}
    \cup {[ts |-> Some(1), path |-> Some(FinalPath(1))],
          [id |-> None, ts |-> Some(1), path |-> Some(FinalPath(1))],
          [id |-> Some(EmptyId), ts |-> Some(1), path |-> Some(FinalPath(1))]}

NextIds ==
    \/ Tick
    \/ \E e \in IdEntries(now) : calls < MaxSeqCalls /\ RcCall(TheProc, e)
    \/ \E i \in IdsAt(now) \cup {EmptyId} : calls < MaxSeqCalls /\ RdCall(TheProc, i, "manual")
    \/ \E i \in IdsAt(now) \cup {EmptyId}, m \in ApiMetas :
            calls < MaxSeqCalls /\ UmCall(TheProc, i, m)
    \/ Acquire(TheProc)
    \/ RcAuditOk(TheProc)
    \/ RcAuditFail(TheProc)
    \/ RcIndexOk(TheProc)
    \/ RcIndexFail(TheProc)
    \/ RcSidecar(TheProc)
    \/ RcReturn(TheProc)
    \/ RdAuditOk(TheProc)
    \/ RdAuditFail(TheProc)
    \/ RdIndexOk(TheProc)
    \/ RdIndexFail(TheProc)
    \/ RdSidecar(TheProc)
    \/ UmWriteOk(TheProc)
    \/ UmWriteFail(TheProc)
    \/ UmIndex(TheProc)
    \/ UmRead(TheProc)
    \/ GiReturn(TheProc)

SpecIds == Init /\ [][NextIds]_vars

\* the id an operation in progress was called with, None when it was given
\* none
CalledId(a) ==
    IF "entry" \in DOMAIN a THEN Get(a.entry, "id")
    ELSE IF "id" \in DOMAIN a THEN Some(a.id)
    ELSE None

\* C25 as stated: a call of record_capture, record_deletion or update_meta
\* with an id that is absent, None or empty raises, and no step of it writes
\* the audit log, the Index or a sidecar
C25_UnusableIdRejected ==
    [][\A p \in Procs :
        (/\ arg[p] # EmptyDict
         /\ arg[p].op \in {"record_capture", "record_deletion", "update_meta"}
         /\ ~TruthyId(CalledId(arg[p]))
         /\ pc'[p] # pc[p]) =>
            /\ stores' = stores
            /\ pc'[p] = "idle" => "raised" \in DOMAIN ret'[p]
    ]_vars

-----------------------------------------------------------------------------
(* SpecGet: one process recording captures, editing metadata and reading items,
   on a data directory whose sidecar files another program may overwrite *)

\* a sidecar file is overwritten from outside with text that is no JSON, or
\* with JSON that is no object
SidecarOverwritten(i, content) ==
    /\ \A p \in Procs : pc[p] = "idle"
    /\ sidecar' = Put(sidecar, i, content)
    /\ UNCHANGED <<now, files, audit, index, lock, pc, arg, ret, calls, lastOp, before>>

NextGet ==
    \/ Tick
    \/ \E i \in IdsAt(now), d \in Dims :
            calls < MaxSeqCalls /\ RcCall(TheProc, CaptureEntry(i, d))
    \/ \E i \in IdsAt(now), m \in ApiMetas : calls < MaxSeqCalls /\ UmCall(TheProc, i, m)
    \/ \E i \in IdsAt(now) : calls < MaxSeqCalls /\ GiCall(TheProc, i)
    \/ \E i \in IdsAt(now), c \in {GarbageMeta, ArrayMeta} : SidecarOverwritten(i, c)
    \/ Acquire(TheProc)
    \/ RcAuditOk(TheProc)
    \/ RcIndexOk(TheProc)
    \/ RcSidecar(TheProc)
    \/ RcReturn(TheProc)
    \/ UmWriteOk(TheProc)
    \/ UmIndex(TheProc)
    \/ UmRead(TheProc)
    \/ GiReturn(TheProc)

SpecGet == Init /\ [][NextGet]_vars

\* the step in which p's get_item returns or raises
GiReturns(p) == pc[p] = "gi_meta" /\ pc'[p] = "idle" /\ arg[p].op = "get_item"

\* C26 as stated: get_item(id) never raises; with a row of id it returns the
\* row with mood, notes and edited_at merged from the sidecar; without a row
\* it returns the content of the sidecar when there is one that json.load
\* accepts, and None when there is no sidecar
C26_GetItemTotal ==
    [][\A p \in Procs :
        GiReturns(p) =>
            LET i   == arg[p].id
                row == get_capture_by_id(index, i)
            IN  /\ "value" \in DOMAIN ret'[p]
                /\ row # None =>
                        /\ ret'[p].value # None
                        /\ \A c \in DOMAIN Val(row) \ MetaKeys :
                                Val(ret'[p].value)[c] = Val(row)[c]
                /\ (row = None /\ i \in DOMAIN sidecar /\ sidecar[i] # GarbageMeta) =>
                        ret'[p].value = Some(sidecar[i])
                /\ (row = None /\ i \notin DOMAIN sidecar) => ret'[p].value = None
    ]_vars

-----------------------------------------------------------------------------
(* SpecReplay: Indexer.migrate_from_jsonl called on a log that holds records,
   lines that are no JSON, lines that are no object, and at its end a line a
   writer did not finish *)

ReplayLines == AuditLines \cup {ScalarLine}

\* what a writer that died in the middle of a line left at the end of the log
PartialTails == {<<>>} \cup {<<PartLine(CaptureEntry(1, d))>> : d \in Dims}

InitReplay ==
    /\ InitStores
    /\ audit \in {s \o tail : s \in SeqsUpTo(ReplayLines, MaxFound), tail \in PartialTails}

NextReplay ==
    \/ Tick
    \/ IdxMigrate

SpecReplay == InitReplay /\ [][NextReplay]_vars

\* a well-formed record the table accepts: it has an id or a path to take one
\* from, and a ts, a path and an action
Replayable(line) ==
    /\ line.kind = "json"
    /\ TruthyId(Get(line.obj, "id")) \/ TruthyPath(Get(line.obj, "path"))
    /\ AddCaptureOk(MigrateEntry(line.obj))

\* C27 as stated: migrate_from_jsonl returns, whatever lines the log holds;
\* the count it returns is the number of well-formed records the table
\* accepts; each of them is upserted in file order, so that the row of an id is
\* the one made from the last such record of the id; and no other row is made
C27_ReplaySkipsBadLines ==
    lastOp.op = "migrate" =>
        /\ ~lastOp.raised
        /\ lastOp.count = Cardinality({k \in 1..Len(audit) : Replayable(audit[k])})
        /\ \A k \in 1..Len(audit) :
                (/\ Replayable(audit[k])
                 /\ \A l \in (k + 1)..Len(audit) :
                        Replayable(audit[l]) => MigrateId(audit[l].obj) # MigrateId(audit[k].obj)) =>
                    SansCreated(get_capture_by_id(index, Val(MigrateId(audit[k].obj))))
                        = SansCreated(Some(RowOf(MigrateEntry(audit[k].obj), now)))
        /\ \A r \in index : \E k \in 1..Len(audit) :
                Replayable(audit[k]) /\ MigrateId(audit[k].obj) = Some(r.id)

-----------------------------------------------------------------------------
(* SpecMerge: metadata.merge_db_and_meta applied to a row and a sidecar *)

\* rows given as db_entry: None, and rows with and without a mood and notes
MergeRows ==
    {None}
    \cup {Some([RowOf(CaptureEntry(1, d), 1) EXCEPT !.mood = mo, !.notes = no]) :
            d \in Dims, mo \in {None, Some("Sad")}, no \in {None, Some("old")}}

\* the values a sidecar gives a field: none (the key is absent), None, a value
FieldChoices(k) ==
    {EmptyDict, [x \in {k} |-> None],
     [x \in {k} |-> IF k = "edited_at" THEN Some(2) ELSE Some("new")]}

\* sidecar contents given as meta: each of id, mood, notes and edited_at absent,
\* None or with a value
MergeMetas ==
    {[k \in DOMAIN i \cup DOMAIN a \cup DOMAIN b \cup DOMAIN c |->
            IF k \in DOMAIN i THEN i[k] ELSE IF k \in DOMAIN a THEN a[k]
            ELSE IF k \in DOMAIN b THEN b[k] ELSE c[k]] :
        i \in {EmptyDict, [id |-> Some(1)]},
        a \in FieldChoices("mood"), b \in FieldChoices("notes"), c \in FieldChoices("edited_at")}

InitMerge ==
    /\ now = 1
    /\ files = {}
    /\ audit = <<>>
    /\ index = EmptyIndex
    /\ sidecar = EmptyDict
    /\ lock = NoProc
    /\ pc = [p \in Procs |-> "idle"]
    /\ \E r \in MergeRows, m \in MergeMetas :
            arg = [p \in Procs |-> IF p = TheProc THEN [row |-> r, meta |-> m] ELSE EmptyDict]
    /\ ret = [p \in Procs |-> EmptyDict]
    /\ calls = 0
    /\ lastOp = [op |-> "none"]
    /\ before = EmptyIndex

\* merged = merge_db_and_meta(db_entry, meta); the inputs are left as given
MergeApply(p) ==
    /\ arg[p] # EmptyDict
    /\ ret[p] = EmptyDict
    /\ ret' = [ret EXCEPT ![p] = [op    |-> "merge_db_and_meta",
                                  value |-> merge_db_and_meta(arg[p].row, arg[p].meta)]]
    /\ UNCHANGED <<now, stores, lock, pc, arg, calls, lastOp, before>>

NextMerge == MergeApply(TheProc)

SpecMerge == InitMerge /\ [][NextMerge]_vars

-----------------------------------------------------------------------------
(* record_capture and the sidecar it finds *)

\* C29 as stated: the only step of record_capture that writes a sidecar is
\* its third; it writes there only when no sidecar file exists for the id,
\* and what it writes is the stub with mood and notes None; a sidecar file
\* that exists keeps its content
C29_StubOnlyWhenAbsent ==
    [][\A p \in Procs :
        (pc[p] # "idle" /\ pc'[p] # pc[p] /\ arg[p].op = "record_capture") =>
            LET eid == Val(arg[p].entry.id)
            IN  /\ eid \in DOMAIN sidecar => sidecar' = sidecar
                /\ sidecar' # sidecar =>
                        /\ pc[p] = "rc_sidecar"
                        /\ eid \notin DOMAIN sidecar
                        /\ sidecar' = Put(sidecar, eid, StubMeta(eid, now))
                        /\ sidecar'[eid].mood = None
                        /\ sidecar'[eid].notes = None
    ]_vars

-----------------------------------------------------------------------------
(* SpecAtomic: storage.atomic_write and metadata.write_meta step by step, with
   failing steps and the death of the process *)

\* pieces in which the operating system takes the bytes of one file
DataChunks == 2

\* atomic_write(dest_folder, filename, data)
AwCall(p, name) ==
    /\ pc[p] = "idle"
    /\ Goto(p, "aw_open", [op |-> "atomic_write", name |-> name, written |-> 0])
    /\ calls' = calls + 1
    /\ UNCHANGED <<now, stores, lock, lastOp, before>>

\* a plausible slip: the final path itself is opened for writing
AwOpen_in_place(p) ==
    /\ pc[p] = "aw_open"
    /\ files' = files \cup {arg[p].name}
    /\ pc' = [pc EXCEPT ![p] = "aw_write"]
    /\ UNCHANGED <<now, audit, index, sidecar, lock, arg, ret, calls, lastOp, before>>

\* NamedTemporaryFile(dir=dest_folder, delete=False): an empty file under a
\* name of its own
AwOpen(p) ==
    /\ pc[p] = "aw_open"
    /\ pc' = [pc EXCEPT ![p] = "aw_write"]
    /\ UNCHANGED <<now, stores, lock, arg, ret, calls, lastOp, before>>

\* tmp.write(data): one more piece reaches the temporary file
AwWrite(p) ==
    /\ pc[p] = "aw_write"
    /\ arg[p].written < DataChunks
    /\ arg' = [arg EXCEPT ![p].written = @ + 1]
    /\ UNCHANGED <<now, stores, lock, pc, ret, calls, lastOp, before>>

\* the "with" ends: the temporary file is closed with all of data in it
AwClose(p) ==
    /\ pc[p] = "aw_write"
    /\ arg[p].written = DataChunks
    /\ pc' = [pc EXCEPT ![p] = "aw_replace"]
    /\ UNCHANGED <<now, stores, lock, arg, ret, calls, lastOp, before>>

\* tmp_path.replace(final_path): the rename puts the file at the final path
AwReplace(p) ==
    /\ pc[p] = "aw_replace"
    /\ files' = files \cup {arg[p].name}
    /\ Finish(p, Returned("atomic_write", arg[p].name))
    /\ UNCHANGED <<now, audit, index, sidecar, lock, calls, lastOp, before>>

\* creating, writing or renaming fails: OSError; the temporary file stays
AwFail(p) ==
    /\ pc[p] \in {"aw_open", "aw_write", "aw_replace"}
    /\ Finish(p, Raised("atomic_write", "OSError"))
    /\ UNCHANGED <<now, stores, lock, calls, lastOp, before>>

\* write_meta(data_dir, eid, meta): meta_to_write gets edited_at
WmCall(p, eid, meta) ==
    /\ pc[p] = "idle"
    /\ Goto(p, "wm_open", [op |-> "write_meta", id |-> eid,
                           content |-> write_meta(EmptyDict, eid, meta, now)[eid],
                           written |-> 0])
    /\ calls' = calls + 1
    /\ UNCHANGED <<now, stores, lock, lastOp, before>>

\* tempfile.mkstemp(dir=p.parent, prefix=".<eid>.tmp.")
WmOpen(p) ==
    /\ pc[p] = "wm_open"
    /\ pc' = [pc EXCEPT ![p] = "wm_write"]
    /\ UNCHANGED <<now, stores, lock, arg, ret, calls, lastOp, before>>

\* json.dump(meta_to_write, tf): one more piece reaches the temporary file
WmWrite(p) ==
    /\ pc[p] = "wm_write"
    /\ arg[p].written < DataChunks
    /\ arg' = [arg EXCEPT ![p].written = @ + 1]
    /\ UNCHANGED <<now, stores, lock, pc, ret, calls, lastOp, before>>

\* tf.flush() and the end of the "with"
WmClose(p) ==
    /\ pc[p] = "wm_write"
    /\ arg[p].written = DataChunks
    /\ pc' = [pc EXCEPT ![p] = "wm_replace"]
    /\ UNCHANGED <<now, stores, lock, arg, ret, calls, lastOp, before>>

\* tmp_path.replace(p)
WmReplace(p) ==
    /\ pc[p] = "wm_replace"
    /\ sidecar' = Put(sidecar, arg[p].id, arg[p].content)
    /\ Finish(p, Returned("write_meta", None))
    /\ UNCHANGED <<now, files, audit, index, lock, calls, lastOp, before>>

\* "except Exception": the temporary file is unlinked and the error raised
WmFail(p) ==
    /\ pc[p] \in {"wm_write", "wm_replace"}
    /\ Finish(p, Raised("write_meta", "OSError"))
    /\ UNCHANGED <<now, stores, lock, calls, lastOp, before>>

NextAtomic ==
    \/ Tick
    \/ \E p \in Procs, n \in IdsAt(now) : calls < MaxSeqCalls /\ AwCall(p, n)
    \/ \E p \in Procs, i \in IdsAt(now), m \in ApiMetas :
            calls < MaxSeqCalls /\ WmCall(p, i, m)
    \/ \E p \in Procs : AwOpen(p)
    \/ \E p \in Procs : AwWrite(p)
    \/ \E p \in Procs : AwClose(p)
    \/ \E p \in Procs : AwReplace(p)
    \/ \E p \in Procs : AwFail(p)
    \/ \E p \in Procs : WmOpen(p)
    \/ \E p \in Procs : WmWrite(p)
    \/ \E p \in Procs : WmClose(p)
    \/ \E p \in Procs : WmReplace(p)
    \/ \E p \in Procs : WmFail(p)
    \/ \E p \in Procs : Crash(p)

SpecAtomic == Init /\ [][NextAtomic]_vars

\* p is inside atomic_write or write_meta
Writing(p) == pc[p] # "idle" /\ arg[p].op \in {"atomic_write", "write_meta"}

\* C30: whatever happens to a process inside atomic_write or write_meta (a
\* step, a failure, its death), the file at the final path stays as it was,
\* absent or with its previous content, unless the step is the rename of a
\* temporary file that holds all of the new content, which then is the content
\* at the final path; no sidecar ever holds text that json.load rejects
C30_NoPartialFinal ==
    [][\A p \in Procs :
        (Writing(p) /\ (pc'[p] # pc[p] \/ arg'[p] # arg[p])) =>
            /\ files' # files =>
                    /\ pc[p] = "aw_replace"
                    /\ arg[p].written = DataChunks
                    /\ files' = files \cup {arg[p].name}
            /\ sidecar' # sidecar =>
                    /\ pc[p] = "wm_replace"
                    /\ arg[p].written = DataChunks
                    /\ sidecar' = Put(sidecar, arg[p].id, arg[p].content)
            /\ \A i \in DOMAIN sidecar' : sidecar'[i] # GarbageMeta
    ]_vars

\* one process died while writing the temporary file of an image and the other
\* while writing that of a sidecar: the image is absent at its final path and
\* the sidecar holds what an earlier write_meta put there
C30_Witness ==
    \E p, q \in Procs :
        /\ ret[p] # EmptyDict
        /\ ret[p].op = "atomic_write"
        /\ "crashed" \in DOMAIN ret[p]
        /\ ret[p].at = "aw_write"
        /\ files = {}
        /\ ret[q] # EmptyDict
        /\ ret[q].op = "write_meta"
        /\ "crashed" \in DOMAIN ret[q]
        /\ ret[q].at = "wm_write"
        /\ 1 \in DOMAIN sidecar
        /\ sidecar[1].mood = Some("Good")

-----------------------------------------------------------------------------
(* SpecRead: one process writing through record_capture, record_deletion and
   update_meta, the other reading with get_item and list_month *)

TheReader == CHOOSE p \in Procs : p # TheProc

NextRead ==
    \/ Tick
    \/ \E e \in ApiEntries(now) : calls < MaxCalls /\ RcCall(TheProc, e)
    \/ \E i \in IdsAt(now) : calls < MaxCalls /\ RdCall(TheProc, i, "manual")
    \/ \E i \in IdsAt(now), m \in ApiMetas : calls < MaxCalls /\ UmCall(TheProc, i, m)
    \/ Acquire(TheProc)
    \/ RcAuditOk(TheProc)
    \/ RcIndexOk(TheProc)
    \/ RcSidecar(TheProc)
    \/ RcReturn(TheProc)
    \/ RdAuditOk(TheProc)
    \/ RdIndexOk(TheProc)
    \/ RdSidecar(TheProc)
    \/ UmWriteOk(TheProc)
    \/ UmIndex(TheProc)
    \/ UmRead(TheProc)
    \/ \E p \in Procs : GiReturn(p)
    \/ \E i \in IdsAt(now) : calls < MaxCalls /\ GiCall(TheReader, i)
    \/ \E ym \in QueryMonths : LmCall(TheReader, ym[1], ym[2])

\* a process that has read the row goes on to read the sidecar and return;
\* a process inside a critical section may stay there for ever
SpecRead ==
    /\ Init
    /\ [][NextRead]_vars
    /\ \A p \in Procs : WF_vars(GiReturn(p))

\* p is inside get_item, called as such
Reading(p) == pc[p] = "gi_meta" /\ arg[p].op = "get_item"

\* a step of p's get_item or list_month
ReadStep(p) ==
    \/ pc[p] = "idle" /\ pc'[p] = "gi_meta"
    \/ GiReturns(p)
    \/ LmReturns(p)

\* C31: no step of get_item or list_month takes or releases the lock or
\* changes the image files, the audit log, the Index or a sidecar, and a
\* get_item under way ends whoever holds the lock and for however long
C31_ReadsLockFree ==
    /\ [][\A p \in Procs : ReadStep(p) => (lock' = lock /\ stores' = stores)]_vars
    /\ \A p \in Procs : Reading(p) ~> pc[p] = "idle"

\* q is at the third step of the record_capture that wrote the only row, with
\* the lock, and p's get_item has returned that row: the read began and ended
\* inside q's critical section
C31_Witness ==
    \E p, q \in Procs :
        /\ p # q
        /\ lock = q
        /\ pc[q] = "rc_sidecar"
        /\ Len(audit) = 1
        /\ ret[p] # EmptyDict
        /\ ret[p].op = "get_item"
        /\ "value" \in DOMAIN ret[p]
        /\ ret[p].value # None
        /\ Val(ret[p].value).action = Some("capture")

-----------------------------------------------------------------------------
(* A retake that fails *)

\* the step in which p's capture_once returns failure after going past the
\* one-per-day check
CoFails(p) ==
    /\ pc[p] \in CoPcs
    /\ pc'[p] = "idle"
    /\ ret'[p].op = "capture_once"
    /\ "success" \in DOMAIN ret'[p]
    /\ ~ret'[p].success

\* C32 as stated: when an attempt returns failure, the image the date had when
\* the attempt began is still among the image files
C32_FailedRetakeKeepsPhoto ==
    [][\A p \in Procs :
        (CoFails(p) /\ arg[p].existing # None) => Val(arg[p].existing) \in files'
    ]_vars

-----------------------------------------------------------------------------
(* SpecTorn: one process recording captures, with the bytes of an audit line
   reaching the file in one write or in two, the death of the process, and
   migrate_if_needed at the restart *)

NextTorn ==
    \/ Tick
    \/ \E i \in IdsAt(now), d \in Dims :
            calls < MaxSeqCalls /\ RcCall(TheProc, CaptureEntry(i, d))
    \/ calls < MaxSeqCalls /\ MgCall(TheProc)
    \/ Acquire(TheProc)
    \/ RcAuditOk(TheProc)
    \/ RcAuditBegin(TheProc)
    \/ RcAuditEnd(TheProc)
    \/ RcIndexOk(TheProc)
    \/ RcSidecar(TheProc)
    \/ RcReturn(TheProc)
    \/ MgRun(TheProc)
    \/ MgReturn(TheProc)
    \/ Crash(TheProc)

SpecTorn == Init /\ [][NextTorn]_vars

\* entries of the record_capture calls of p whose audit append has completed:
\* the call under way past the append, and the call that returned last
Appended(p) ==
    {x.entry : x \in {y \in {arg[p], ret[p]} :
                        /\ y # EmptyDict
                        /\ y.op = "record_capture"
                        /\ "raised" \notin DOMAIN y
                        /\ \/ y = arg[p] /\ pc[p] \in AfterAppendPcs
                           \/ y = ret[p] /\ "crashed" \notin DOMAIN y}}

\* C33 as stated: the entry of a completed append is a whole line of the log,
\* and a migration of the log brings its id into the Index, also when the log
\* held an unfinished line at the time of the append
C33_AppendSurvivesTornLine ==
    \A p \in Procs : \A e \in Appended(p) :
        /\ JsonLine(e) \in Lines(audit)
        /\ get_capture_by_id(migrate_from_jsonl(EmptyIndex, audit, now).idx, Val(e.id)) # None

-----------------------------------------------------------------------------
(* What readers see across a migration *)

\* the mood, notes and action get_item returns for id i, given the table and
\* the sidecars
Seen(idx, sc, i) ==
    LET v == Val(get_item(get_capture_by_id(idx, i), read_meta(sc, i)))
    IN  [f \in {"mood", "notes", "action"} |-> v[f]]

\* C34 as stated: the step of migrate_if_needed that runs the migration leaves
\* the mood, notes and action that get_item returns unchanged for every id
\* that has a row before it
C34_MigrationKeepsView ==
    [][\A p \in Procs :
        (pc[p] = "mg_run" /\ pc'[p] # pc[p]) =>
            \A r \in index : Seen(index', sidecar', r.id) = Seen(index, sidecar, r.id)
    ]_vars

-----------------------------------------------------------------------------
(* update_meta with a mood alone *)

\* p is inside the critical section of an update_meta that was given a mood
\* and nothing else
UpdatingMoodOnly(p) ==
    /\ pc[p] \in UmCriticalPcs
    /\ arg[p].op = "update_meta"
    /\ DOMAIN arg[p].meta = {"mood"}

\* C35 as stated: no step of update_meta(id, {mood: x}) changes the notes that
\* get_item returns for an id with a row
C35_MoodOnlyKeepsNotes ==
    [][\A p \in Procs :
        (UpdatingMoodOnly(p) /\ pc'[p] # pc[p]
            /\ get_capture_by_id(index, arg[p].id) # None) =>
            Seen(index', sidecar', arg[p].id).notes = Seen(index, sidecar, arg[p].id).notes
    ]_vars

-----------------------------------------------------------------------------
(* Sidecars and the rows they belong to *)

\* no operation is under way
Quiet == \A p \in Procs : pc[p] = "idle"

\* C36 as stated: between operations every sidecar file belongs to an id whose
\* row in the Index has the action capture
C36_SidecarOnlyForCapture ==
    Quiet =>
        \A i \in DOMAIN sidecar :
            LET row == get_capture_by_id(index, i)
            IN  row # None /\ Val(row).action = Some("capture")

-----------------------------------------------------------------------------
(* The Index against the audit log *)

\* positions of the entries of id i in the log
EntriesOf(log, i) ==
    {k \in 1..Len(log) : log[k].kind = "json" /\ Get(log[k].obj, "id") = Some(i)}

\* the action of the last entry of id i in the log
LastAction(log, i) ==
    LET k == CHOOSE x \in EntriesOf(log, i) : \A y \in EntriesOf(log, i) : y <= x
    IN  GetD(log[k].obj, "action", Some("capture"))

\* C37 as stated: between operations, also after one that raised or was cut
\* short by the death of the process, every id with a row has an entry in the
\* audit log, and the action of the row is that of the last entry of the id
C37_RowFollowsLastEntry ==
    Quiet =>
        \A r \in index :
            /\ EntriesOf(audit, r.id) # {}
            /\ r.action = LastAction(audit, r.id)

-----------------------------------------------------------------------------
(* What record_capture returns while other processes write *)

\* C38 as stated: the record a record_capture returns has the action capture
\* and the ts, path, width, height and resolution of the entry passed in,
\* whatever another process does to the same id meanwhile
C38_ReturnReflectsOwnWrite ==
    \A p \in Procs :
        Recorded(p) =>
            LET e == ret[p].entry
                v == ret[p].value
            IN  /\ "action" \in DOMAIN v
                /\ v.action = Some("capture")
                /\ \A f \in {"ts", "path", "width", "height", "resolution"} :
                        v[f] = RowOf(e, now)[f]

=============================================================================
